---- MODULE Spec2Model ----
(***************************************************************************)
(* State-machine model of the ant-colony consensus engine: pheromones,     *)
(* ant agents, per-node state, the consensus driver and the message        *)
(* dispatch.                                                               *)
(*                                                                         *)
(* f64 quantities (intensity, rate, energy) are fixed-point integers in    *)
(* units of 1/One; a product is rounded to the nearest unit, as an f64     *)
(* product is rounded to the nearest representable value.                  *)
(***************************************************************************)
EXTENDS Integers, Sequences, FiniteSets, TLC

(***************************************************************************)
(* Program constants                                                       *)
(***************************************************************************)
\* the f64 literal 1.0 of `1.0 - rate`
One == 10000
\* 0.8
CONSENSUS_THRESHOLD == 8000
\* 0.01
MIN_PHEROMONE_INTENSITY == 100
\* 1.0
INITIAL_PHEROMONE_INTENSITY == 10000
\* 0.01
DEFAULT_EVAPORATION_RATE == 100
\* 100.0
INITIAL_ANT_ENERGY == 1000000
\* 0.1
ENERGY_DECAY_RATE == 1000
\* 0.0
MIN_ANT_ENERGY == 0
ANT_MEMORY_SIZE == 256
\* `neighbors.len().min(5)`
MAX_EXPLORER_ANTS == 5
\* the placeholder per-neighbor intensity 0.5
PLACEHOLDER_INTENSITY == 5000
\* `unwrap_or(0.1)`
DEFAULT_PATH_INTENSITY == 1000

(***************************************************************************)
(* Bounds of the model                                                     *)
(***************************************************************************)
\* wall-clock seconds run over 0..MaxClock
MaxClock == 1
\* evaporate(DEFAULT_EVAPORATION_RATE) calls on the single pheromone
MaxEvapDefault == 100
\* evaporate(r) calls on the single pheromone for each other rate r
MaxEvapOther == 1
\* node ids an ant may be moved to are 0..MaxNodeId
MaxNodeId == 258
\* update_energy calls on the single ant
MaxEnergyUpdates == 1
\* emit_pheromone and receive_pheromone calls on the single NodeState
MaxStored == 3
\* evaporate_pheromones calls on the single NodeState
MaxNodeEvaps == 1
\* check_consensus calls on the single NodeState
MaxChecks == 2
\* ants in the single NodeState's list
MaxNodeAnts == 2
\* update_ants calls on the single NodeState
MaxUpdateCalls == 1001
\* nodes of the network are 1..NumNodes
NumNodes == 2
\* steps of each node's consensus engine
MaxTicks == 2
\* propose calls in the network
MaxProposals == 2
\* steps of the engine of a node that runs for some seconds (100 ms each)
MaxRunTicks == 52
\* steps an ant of a node left alone still has to live (of 1000 when new)
MaxAntSteps == 500
\* datagrams handled by each node
MaxDeliveries == 1
\* heartbeats of each node
MaxHeartbeats == 1
\* discovery rounds of each node
MaxDiscoveries == 1
MaxCalls == 1
MaxHandled == 2
MaxNeighborCalls == 2
MaxNodeSteps == 2
\* capacity of the outbound queue, standing for mpsc::channel(1000)
QueueCapacity == 2

(***************************************************************************)
(* Values, keys, node ids                                                  *)
(***************************************************************************)
\* ConsensusValue: a digest; equality is equality of digests
Values == {"v1", "v2"}
NoValue == "none"
\* private keys handed to Pheromone::new: the empty slice, the 32-byte zero
\* buffer, a PKCS#8 document
KeyEmpty == "empty"
KeyZero32 == "zero32"
KeyPkcs8 == "pkcs8"
Keys == {KeyEmpty, KeyZero32, KeyPkcs8}
NoPheromone == [none |-> TRUE]

\* Option<NodeId>::None
NoNode == 0 - 1

Min(S) == CHOOSE x \in S : \A y \in S : x <= y
Max(S) == CHOOSE x \in S : \A y \in S : x >= y

\* f64 product a * b
FMul(a, b) == (a * b + One \div 2) \div One

(***************************************************************************)
(* Pheromone (core/pheromone.rs)                                           *)
(***************************************************************************)
\* digest || be(timestamp) || be(source)
create_message(value, timestamp, source) == <<value, timestamp, source>>

\* Ed25519KeyPair::from_pkcs8 accepts a PKCS#8 document and nothing else:
\* neither the empty key nor 32 zero bytes is one
from_pkcs8(private_key) == private_key = KeyPkcs8

\* sign_message: the signature of the message under the key, or the error
\* of a key that does not parse
sign_message(message, private_key) ==
    IF from_pkcs8(private_key)
    THEN [ok |-> TRUE, val |-> [key |-> private_key, msg |-> message]]
    ELSE [ok |-> FALSE, val |-> "Failed to parse private key"]

\* vec![0u8; 64]
DummySignature == [key |-> "zero64", msg |-> <<>>]

\* Pheromone::new at wall-clock second now
Pheromone_new(value, source, private_key, now) ==
    LET message == create_message(value, now, source)
        sig == IF private_key = KeyEmpty
               THEN [ok |-> TRUE, val |-> DummySignature]
               ELSE sign_message(message, private_key)
    IN  IF sig.ok
        THEN [ok |-> TRUE,
              val |-> [timestamp |-> now,
                       intensity |-> INITIAL_PHEROMONE_INTENSITY,
                       source |-> source,
                       value |-> value,
                       signature |-> sig.val]]
        ELSE [ok |-> FALSE, val |-> "Crypto"]

evaporate_grows(p, rate) == [p EXCEPT !.intensity = FMul(p.intensity, One + rate)]

evaporate(p, rate) == [p EXCEPT !.intensity = FMul(p.intensity, One - rate)]

strength(p) == p.intensity

is_strong_enough(p) == p.intensity >= CONSENSUS_THRESHOLD

should_remove_never(p) == FALSE

should_remove(p) == p.intensity < MIN_PHEROMONE_INTENSITY

(***************************************************************************)
(* AntAgent (core/ant_agent.rs)                                            *)
(***************************************************************************)
AntAgent_new(id, start_node) ==
    [id |-> id,
     current_node |-> start_node,
     carried_pheromone |-> NoPheromone,
     visited_nodes |-> {start_node},
     energy_level |-> INITIAL_ANT_ENERGY,
     start_node |-> start_node]

with_pheromone(id, start_node, pheromone) ==
    [AntAgent_new(id, start_node) EXCEPT !.carried_pheromone = pheromone]

update_energy(a) == [a EXCEPT !.energy_level = a.energy_level - ENERGY_DECAY_RATE]

is_alive(a) == a.energy_level > MIN_ANT_ENERGY

move_to_stays(a, node) ==
    LET inserted == a.visited_nodes \cup {node}
    IN  [a EXCEPT !.visited_nodes =
                      IF Cardinality(inserted) > ANT_MEMORY_SIZE
                      THEN inserted \ {a.start_node}
                      ELSE inserted]

move_to(a, node) ==
    LET inserted == a.visited_nodes \cup {node}
    IN  [a EXCEPT !.visited_nodes =
                      IF Cardinality(inserted) > ANT_MEMORY_SIZE
                      THEN inserted \ {a.start_node}
                      ELSE inserted,
                  !.current_node = node]

\* the intensity select_next_node finds for a neighbor in the list of
\* (NodeId, intensity) pairs: that of the first pair with its id, else 0.1
RECURSIVE find_intensity(_, _)
find_intensity(pheromone_intensities, neighbor) ==
    IF pheromone_intensities = <<>> THEN DEFAULT_PATH_INTENSITY
    ELSE IF Head(pheromone_intensities)[1] = neighbor THEN Head(pheromone_intensities)[2]
    ELSE find_intensity(Tail(pheromone_intensities), neighbor)

\* the roulette wheel: the first of probabilities[i..] whose cumulative
\* intensity reaches random_value, or NoNode
RECURSIVE roulette(_, _, _, _)
roulette(probabilities, i, cumulative, random_value) ==
    IF i > Len(probabilities) THEN NoNode
    ELSE IF random_value <= cumulative + probabilities[i][2] THEN probabilities[i][1]
    ELSE roulette(probabilities, i + 1, cumulative + probabilities[i][2], random_value)

RECURSIVE SumIntensity(_)
SumIntensity(probabilities) ==
    IF probabilities = <<>> THEN 0
    ELSE Head(probabilities)[2] + SumIntensity(Tail(probabilities))

select_next_node_revisits(a, neighbors, pheromone_intensities, gen, index) ==
    IF neighbors = <<>> THEN NoNode
    ELSE LET probabilities ==
                 [i \in 1..Len(neighbors) |->
                     <<neighbors[i], find_intensity(pheromone_intensities, neighbors[i])>>]
             total_intensity == SumIntensity(probabilities)
             random_value == FMul(gen, total_intensity)
             chosen == roulette(probabilities, 1, 0, random_value)
         IN  IF total_intensity = 0 THEN neighbors[((index - 1) % Len(neighbors)) + 1]
             ELSE IF chosen # NoNode THEN chosen
             ELSE neighbors[1]

\* neighbors: a sequence of node ids; pheromone_intensities: a sequence of
\* <<id, intensity>>; gen: the value of rng.gen::<f64>() in [0,1);
\* index: the value of rng.gen_range(0..len), counted from 1
select_next_node(a, neighbors, pheromone_intensities, gen, index) ==
    IF neighbors = <<>> THEN NoNode
    ELSE LET Unvisited(node) == node \notin a.visited_nodes
             available_neighbors == SelectSeq(neighbors, Unvisited)
             probabilities ==
                 [i \in 1..Len(available_neighbors) |->
                     <<available_neighbors[i],
                       find_intensity(pheromone_intensities, available_neighbors[i])>>]
             total_intensity == SumIntensity(probabilities)
             random_value == FMul(gen, total_intensity)
             chosen == roulette(probabilities, 1, 0, random_value)
         IN  IF available_neighbors = <<>> THEN neighbors[1]
             ELSE IF total_intensity = 0
                  THEN available_neighbors[((index - 1) % Len(available_neighbors)) + 1]
             ELSE IF chosen # NoNode THEN chosen
             ELSE available_neighbors[1]

\* returns <<the pheromone taken, the ant without it>>
drop_pheromone(a) == <<a.carried_pheromone, [a EXCEPT !.carried_pheromone = NoPheromone]>>

pick_up_pheromone(a, pheromone) == [a EXCEPT !.carried_pheromone = pheromone]

(***************************************************************************)
(* NodeState (core/node_state.rs)                                          *)
(***************************************************************************)
\* f64 NaN, the quotient 0.0 / 0.0; every comparison with it is false
NaN == 0 - One * One
\* f64 quotient total / n for a count n
FAvg(total, n) == IF n = 0 THEN NaN ELSE (2 * total + n) \div (2 * n)
FGt(a, b) == a # NaN /\ b # NaN /\ a > b
FGe(a, b) == a # NaN /\ b # NaN /\ a >= b

RECURSIVE SumStrength(_)
SumStrength(list) ==
    IF list = <<>> THEN 0 ELSE strength(Head(list)) + SumStrength(Tail(list))

\* the orders in which the elements of S can be iterated (HashMap / HashSet
\* iteration order is unspecified)
Orders(S) ==
    {f \in [1..Cardinality(S) -> S] : \A i, j \in 1..Cardinality(S) : f[i] = f[j] => i = j}

NodeStats_default ==
    [pheromones_received |-> 0,
     pheromones_emitted |-> 0,
     ants_created |-> 0,
     consensus_reached |-> 0,
     messages_sent |-> 0,
     messages_received |-> 0]

NodeState_new(id) ==
    [id |-> id,
     current_value |-> NoValue,
     pheromones |-> <<>>,
     ants |-> <<>>,
     neighbors |-> {},
     evaporation_rate |-> DEFAULT_EVAPORATION_RATE,
     stats |-> NodeStats_default]

add_neighbor_latest(s, neighbor) ==
    IF neighbor # s.id THEN [s EXCEPT !.neighbors = {neighbor}] ELSE s

add_neighbor_any(s, neighbor) == [s EXCEPT !.neighbors = @ \cup {neighbor}]

add_neighbor(s, neighbor) ==
    IF neighbor # s.id THEN [s EXCEPT !.neighbors = @ \cup {neighbor}] ELSE s

remove_neighbor(s, neighbor) == [s EXCEPT !.neighbors = @ \ {neighbor}]

\* pheromones.entry(value).or_insert_with(Vec::new).push(p)
push_pheromone(pheromones, value, p) ==
    IF value \in DOMAIN pheromones
    THEN [pheromones EXCEPT ![value] = Append(@, p)]
    ELSE [v \in DOMAIN pheromones \cup {value} |->
             IF v = value THEN <<p>> ELSE pheromones[v]]

emit_pheromone_counts_first(s, value, private_key, now) ==
    LET r == Pheromone_new(value, s.id, private_key, now)
        counted == [s EXCEPT !.stats.pheromones_emitted = @ + 1]
    IN  IF r.ok
        THEN [ok |-> TRUE, val |-> r.val,
              ns |-> [counted EXCEPT !.pheromones = push_pheromone(@, value, r.val)]]
        ELSE [ok |-> FALSE, val |-> r.val, ns |-> counted]

\* returns [ok, val: the pheromone or the error, ns: the state afterwards]
emit_pheromone(s, value, private_key, now) ==
    LET r == Pheromone_new(value, s.id, private_key, now)
    IN  IF r.ok
        THEN [ok |-> TRUE, val |-> r.val,
              ns |-> [s EXCEPT !.pheromones = push_pheromone(@, value, r.val),
                               !.stats.pheromones_emitted = @ + 1]]
        ELSE [ok |-> FALSE, val |-> r.val, ns |-> s]

receive_pheromone_uncounted(s, p) ==
    [s EXCEPT !.pheromones = push_pheromone(@, p.value, p)]

receive_pheromone(s, p) ==
    [s EXCEPT !.pheromones = push_pheromone(@, p.value, p),
              !.stats.pheromones_received = @ + 1]

evaporate_pheromones_carried(s) ==
    LET Kept(p) == ~should_remove(p)
        retained(list) ==
            SelectSeq([i \in 1..Len(list) |-> evaporate(list[i], s.evaporation_rate)], Kept)
        evaporated == [v \in DOMAIN s.pheromones |-> retained(s.pheromones[v])]
        to_remove == {v \in DOMAIN evaporated : evaporated[v] = <<>>}
        carried(a) == IF a.carried_pheromone = NoPheromone THEN a
                      ELSE [a EXCEPT !.carried_pheromone = evaporate(@, s.evaporation_rate)]
    IN  [s EXCEPT !.pheromones = [v \in DOMAIN evaporated \ to_remove |-> evaporated[v]],
                  !.ants = [i \in 1..Len(@) |-> carried(@[i])]]

evaporate_pheromones_halves(s) ==
    LET Kept(p) == ~should_remove(p)
        retained(list) ==
            SelectSeq([i \in 1..Len(list) |-> evaporate(list[i], One \div 2)], Kept)
        evaporated == [v \in DOMAIN s.pheromones |-> retained(s.pheromones[v])]
        to_remove == {v \in DOMAIN evaporated : evaporated[v] = <<>>}
    IN  [s EXCEPT !.pheromones = [v \in DOMAIN evaporated \ to_remove |-> evaporated[v]]]

evaporate_pheromones(s) ==
    LET Kept(p) == ~should_remove(p)
        retained(list) ==
            SelectSeq([i \in 1..Len(list) |-> evaporate(list[i], s.evaporation_rate)], Kept)
        evaporated == [v \in DOMAIN s.pheromones |-> retained(s.pheromones[v])]
        to_remove == {v \in DOMAIN evaporated : evaporated[v] = <<>>}
    IN  [s EXCEPT !.pheromones = [v \in DOMAIN evaporated \ to_remove |-> evaporated[v]]]

\* the loop of check_consensus over the map in iteration order `order`;
\* best is <<>> (None) or <<value, avg_intensity>>
RECURSIVE best_value(_, _, _, _)
best_value(pheromones, order, i, best) ==
    IF i > Len(order) THEN best
    ELSE LET value == order[i]
             total_intensity == SumStrength(pheromones[value])
             avg_intensity == FAvg(total_intensity, Len(pheromones[value]))
         IN  best_value(pheromones, order, i + 1,
                        IF best = <<>> THEN <<value, avg_intensity>>
                        ELSE IF FGt(avg_intensity, best[2]) THEN <<value, avg_intensity>>
                        ELSE best)

check_consensus_strict(s, order) ==
    LET best == best_value(s.pheromones, order, 1, <<>>)
    IN  IF best # <<>> /\ FGt(best[2], CONSENSUS_THRESHOLD)
        THEN [ret |-> best[1],
              ns |-> [s EXCEPT !.current_value = best[1],
                               !.stats.consensus_reached = @ + 1]]
        ELSE [ret |-> NoValue, ns |-> s]

check_consensus_forgets(s, order) ==
    LET best == best_value(s.pheromones, order, 1, <<>>)
    IN  IF best # <<>> /\ FGe(best[2], CONSENSUS_THRESHOLD)
        THEN [ret |-> best[1],
              ns |-> [s EXCEPT !.current_value = best[1],
                               !.stats.consensus_reached = @ + 1]]
        ELSE [ret |-> NoValue, ns |-> [s EXCEPT !.current_value = NoValue]]

check_consensus_on_crossing(s, order) ==
    LET best == best_value(s.pheromones, order, 1, <<>>)
    IN  IF best # <<>> /\ FGe(best[2], CONSENSUS_THRESHOLD) /\ s.current_value # best[1]
        THEN [ret |-> best[1],
              ns |-> [s EXCEPT !.current_value = best[1],
                               !.stats.consensus_reached = @ + 1]]
        ELSE [ret |-> NoValue, ns |-> s]

check_consensus_corroborated(s, order) ==
    LET best == best_value(s.pheromones, order, 1, <<>>)
        corroborated(value) == \E i \in 1..Len(s.pheromones[value]) :
                                  s.pheromones[value][i].source # s.id
    IN  IF best # <<>> /\ FGe(best[2], CONSENSUS_THRESHOLD) /\ corroborated(best[1])
        THEN [ret |-> best[1],
              ns |-> [s EXCEPT !.current_value = best[1],
                               !.stats.consensus_reached = @ + 1]]
        ELSE [ret |-> NoValue, ns |-> s]

\* returns [ret: the value or NoValue, ns: the state afterwards]
check_consensus(s, order) ==
    LET best == best_value(s.pheromones, order, 1, <<>>)
    IN  IF best # <<>> /\ FGe(best[2], CONSENSUS_THRESHOLD)
        THEN [ret |-> best[1],
              ns |-> [s EXCEPT !.current_value = best[1],
                               !.stats.consensus_reached = @ + 1]]
        ELSE [ret |-> NoValue, ns |-> s]

add_ant(s, a) == [s EXCEPT !.ants = Append(@, a), !.stats.ants_created = @ + 1]

cleanup_dead_ants(s) == [s EXCEPT !.ants = SelectSeq(@, is_alive)]

update_ants_keeps_dead(s) ==
    [s EXCEPT !.ants = [i \in 1..Len(@) |-> update_energy(@[i])]]

update_ants(s) ==
    cleanup_dead_ants([s EXCEPT !.ants = [i \in 1..Len(@) |-> update_energy(@[i])]])

\* the neighbor set as a Vec, in one of its iteration orders
get_neighbors(s) == Orders(s.neighbors)

(***************************************************************************)
(* Messages and inbound dispatch (network/message.rs, network/multicast.rs)*)
(***************************************************************************)
PheromoneBroadcast(pheromone, sender) ==
    [type |-> "PheromoneBroadcast", pheromone |-> pheromone, sender |-> sender]
AntMovement(ant_id, from_node, to_node, carried_pheromone) ==
    [type |-> "AntMovement", ant_id |-> ant_id, from_node |-> from_node,
     to_node |-> to_node, carried_pheromone |-> carried_pheromone]
NeighborDiscoveryMsg(node_id, neighbors) ==
    [type |-> "NeighborDiscovery", node_id |-> node_id, neighbors |-> neighbors]
ConsensusAnnouncement(node_id, value) ==
    [type |-> "ConsensusAnnouncement", node_id |-> node_id, value |-> value]
Heartbeat(node_id, timestamp) ==
    [type |-> "Heartbeat", node_id |-> node_id, timestamp |-> timestamp]

\* Message::sender
sender_of(m) ==
    CASE m.type = "PheromoneBroadcast" -> m.sender
      [] m.type = "AntMovement" -> m.from_node
      [] OTHER -> m.node_id

add_neighbors_first(s, list) ==
    IF list = <<>> THEN s ELSE add_neighbor(s, Head(list))

RECURSIVE add_neighbors(_, _)
add_neighbors(s, list) ==
    IF list = <<>> THEN s ELSE add_neighbors(add_neighbor(s, Head(list)), Tail(list))

handle_message_adopts(s, m) ==
    CASE m.type = "PheromoneBroadcast" ->
            IF m.sender = s.id THEN s
            ELSE receive_pheromone(add_neighbor(s, m.sender), m.pheromone)
      [] m.type = "AntMovement" ->
            IF m.to_node = s.id /\ m.carried_pheromone # NoPheromone
            THEN receive_pheromone(s, m.carried_pheromone)
            ELSE s
      [] m.type = "NeighborDiscovery" ->
            IF m.node_id # s.id
            THEN add_neighbors(add_neighbor(s, m.node_id), m.neighbors)
            ELSE s
      [] m.type = "ConsensusAnnouncement" -> [s EXCEPT !.current_value = m.value]
      [] m.type = "Heartbeat" ->
            IF m.node_id # s.id THEN add_neighbor(s, m.node_id) ELSE s

handle_message_any_destination(s, m) ==
    CASE m.type = "PheromoneBroadcast" ->
            IF m.sender = s.id THEN s
            ELSE receive_pheromone(add_neighbor(s, m.sender), m.pheromone)
      [] m.type = "AntMovement" ->
            IF m.carried_pheromone # NoPheromone
            THEN receive_pheromone(s, m.carried_pheromone)
            ELSE s
      [] m.type = "NeighborDiscovery" ->
            IF m.node_id # s.id
            THEN add_neighbors(add_neighbor(s, m.node_id), m.neighbors)
            ELSE s
      [] m.type = "ConsensusAnnouncement" -> s
      [] m.type = "Heartbeat" ->
            IF m.node_id # s.id THEN add_neighbor(s, m.node_id) ELSE s

\* the NodeState after handle_message(message) at the node owning s
handle_message(s, m) ==
    CASE m.type = "PheromoneBroadcast" ->
            IF m.sender = s.id THEN s
            ELSE receive_pheromone(add_neighbor(s, m.sender), m.pheromone)
      [] m.type = "AntMovement" ->
            IF m.to_node = s.id /\ m.carried_pheromone # NoPheromone
            THEN receive_pheromone(s, m.carried_pheromone)
            ELSE s
      [] m.type = "NeighborDiscovery" ->
            IF m.node_id # s.id
            THEN add_neighbors(add_neighbor(s, m.node_id), m.neighbors)
            ELSE s
      [] m.type = "ConsensusAnnouncement" -> s
      [] m.type = "Heartbeat" ->
            IF m.node_id # s.id THEN add_neighbor(s, m.node_id) ELSE s

(***************************************************************************)
(* The NodeState lock (tokio::sync::RwLock)                                *)
(***************************************************************************)
NoTask == "none"
Unlocked == [writer |-> NoTask, readers |-> {}]
can_write(l) == l.writer = NoTask /\ l.readers = {}
can_read(l) == l.writer = NoTask
\* node_state.write().await by task t
write(l, t) == [l EXCEPT !.writer = t]
\* node_state.read().await by task t
read(l, t) == [l EXCEPT !.readers = @ \cup {t}]
drop_keeps(l, t) == l

\* the guard of task t goes out of scope or is dropped
drop(l, t) ==
    [writer |-> IF l.writer = t THEN NoTask ELSE l.writer, readers |-> l.readers \ {t}]
holds(l, t) == l.writer = t \/ t \in l.readers

VARIABLES
    \* a single pheromone under evaporation
    ph,          \* the pheromone
    phPrev,      \* the pheromone before the last evaporate call
    lastRate,    \* the rate of the last evaporate call
    evapCount,   \* rate -> number of evaporate calls with it
    \* a single ant agent
    ant,         \* the ant
    antUpdates,  \* number of update_energy calls
    \* a single NodeState under its own operations
    ns,          \* the NodeState
    nsPrev,      \* the NodeState before the last call
    nsOp,        \* the last call: its name and its arguments
    nsRet,       \* what the last call returned
    nsCalls,     \* call name -> number of calls
    \* the nodes of a network
    nodes,       \* node id -> NodeState
    lock,        \* node id -> the RwLock around the NodeState
    engine,      \* node id -> the consensus step task: pc and locals
    proposer,    \* node id -> task -> a propose call: pc and locals
    periodic,    \* node id -> the heartbeat and discovery tasks: pc and locals
    next_ant_id, \* node id -> AntColonyConsensus::next_ant_id
    outq,        \* node id -> the outbound mpsc queue
    closed,      \* node id -> the outbound queue has lost its receiver
    net,         \* the datagrams sent to the multicast group
    now,         \* wall-clock seconds
    budget,      \* how many steps, proposals, deliveries, ... have run
    \* single calls of functions
    selected,    \* the last select_next_node call: its arguments and its result
    wire         \* the last message serialized: the message, its bytes, the parse

pherVars == <<ph, phPrev, lastRate, evapCount>>
antVars == <<ant, antUpdates>>
nodeVars == <<ns, nsPrev, nsOp, nsRet, nsCalls>>
sysVars == <<nodes, lock, engine, proposer, periodic, next_ant_id, outq, closed, net, now,
             budget>>
callVars == <<selected, wire>>
vars == <<pherVars, antVars, nodeVars, sysVars, callVars>>
\* what the operations on the single pheromone, the single ant, the single
\* NodeState leave alone
notPher == <<antVars, nodeVars, sysVars, callVars>>
notAnt == <<pherVars, nodeVars, sysVars, callVars>>
notNode == <<pherVars, antVars, sysVars, callVars>>
notSys == <<pherVars, antVars, nodeVars, callVars>>
notCall == <<pherVars, nodeVars, sysVars>>

\* no select_next_node call and no serialization yet
NoSelection == [called |-> FALSE]
NoWire == [sent |-> FALSE]
CallInit0 ==
    /\ selected = NoSelection
    /\ wire = NoWire

(***************************************************************************)
(* A pheromone under repeated evaporation                                  *)
(***************************************************************************)
\* rates in [0,1]: 0, 0.01, 0.1, 1
UnitRates == {0, DEFAULT_EVAPORATION_RATE, 1000, One}
\* rates outside [0,1]: -0.5, 1.5
OutsideRates == {0 - 5000, 15000}
Rates == UnitRates \cup OutsideRates

EvapCap(r) == IF r = DEFAULT_EVAPORATION_RATE THEN MaxEvapDefault ELSE MaxEvapOther

PherInit0 ==
    /\ ph = Pheromone_new("v1", 1, KeyEmpty, 0).val
    /\ phPrev = ph
    /\ lastRate = 0
    /\ evapCount = [r \in Rates |-> 0]

PherInit ==
    /\ ph \in {Pheromone_new("v1", 1, KeyPkcs8, t).val : t \in 0..MaxClock}
    /\ phPrev = ph
    /\ lastRate = 0
    /\ evapCount = [r \in Rates |-> 0]

PherEvaporate(r) ==
    /\ evapCount[r] < EvapCap(r)
    /\ ph' = evaporate(ph, r)
    /\ phPrev' = ph
    /\ lastRate' = r
    /\ evapCount' = [evapCount EXCEPT ![r] = @ + 1]

(***************************************************************************)
(* An ant agent under its own operations                                   *)
(***************************************************************************)
NodeIds == 0..MaxNodeId

AntInit0 ==
    /\ ant = AntAgent_new(1, 0)
    /\ antUpdates = 0

AntInit ==
    /\ ant \in {AntAgent_new(1, s) : s \in {0, 1}}
                 \cup {with_pheromone(1, s, Pheromone_new("v1", 1, KeyEmpty, 0).val) :
                          s \in {0, 1}}
    /\ antUpdates = 0

\* the ids a move is tried with: the start node, the current node and the
\* lowest id other than the start node that is not yet in memory
MoveInputs(a) ==
    LET fresh == NodeIds \ (a.visited_nodes \cup {a.start_node})
    IN  {a.start_node, a.current_node} \cup (IF fresh = {} THEN {} ELSE {Min(fresh)})

AntMoveTo ==
    /\ \E node \in MoveInputs(ant) : ant' = move_to(ant, node)
    /\ UNCHANGED <<antUpdates, notAnt>>

AntUpdateEnergy ==
    /\ antUpdates < MaxEnergyUpdates
    /\ ant' = update_energy(ant)
    /\ antUpdates' = antUpdates + 1
    /\ UNCHANGED notAnt

AntDropPheromone ==
    /\ ant' = drop_pheromone(ant)[2]
    /\ UNCHANGED <<antUpdates, notAnt>>

AntPickUpPheromone ==
    /\ ant' = pick_up_pheromone(ant, Pheromone_new("v2", 1, KeyEmpty, 0).val)
    /\ UNCHANGED <<antUpdates, notAnt>>

(***************************************************************************)
(* A NodeState under its own operations                                    *)
(***************************************************************************)
\* added: the ids passed to add_neighbor so far
NoCalls ==
    [store |-> 0, evaporate |-> 0, check |-> 0, update |-> 0, handle |-> 0, neighbor |-> 0,
     step |-> 0, added |-> {}]

NodeInit0 ==
    /\ ns = NodeState_new(1)
    /\ nsPrev = ns
    /\ nsOp = <<"new">>
    /\ nsRet = NoValue
    /\ nsCalls = NoCalls

\* intensities of the pheromones handed to receive_pheromone:
\* 1.0, 0.9, 0.8, 0.7 and the removal floor 0.01
ReceiveIntensities == {One, 9000, CONSENSUS_THRESHOLD, 7000, MIN_PHEROMONE_INTENSITY}

ReceivedPheromones ==
    {[timestamp |-> 0, intensity |-> i, source |-> 2, value |-> v,
      signature |-> DummySignature] : v \in Values, i \in ReceiveIntensities}

NodeEmit ==
    /\ nsCalls.store < MaxStored
    /\ \E value \in Values, key \in Keys :
          LET r == emit_pheromone(ns, value, key, 0)
          IN  /\ ns' = r.ns
              /\ nsRet' = [ok |-> r.ok, val |-> r.val]
              /\ nsOp' = <<"emit_pheromone", value, key>>
    /\ nsPrev' = ns
    /\ nsCalls' = [nsCalls EXCEPT !.store = @ + 1]
    /\ UNCHANGED notNode

NodeReceive ==
    /\ nsCalls.store < MaxStored
    /\ \E p \in ReceivedPheromones :
          /\ ns' = receive_pheromone(ns, p)
          /\ nsOp' = <<"receive_pheromone", p>>
    /\ nsRet' = NoValue
    /\ nsPrev' = ns
    /\ nsCalls' = [nsCalls EXCEPT !.store = @ + 1]
    /\ UNCHANGED notNode

NodeEvaporate ==
    /\ nsCalls.evaporate < MaxNodeEvaps
    /\ ns' = evaporate_pheromones(ns)
    /\ nsOp' = <<"evaporate_pheromones">>
    /\ nsRet' = NoValue
    /\ nsPrev' = ns
    /\ nsCalls' = [nsCalls EXCEPT !.evaporate = @ + 1]
    /\ UNCHANGED notNode

NodeCheckConsensus ==
    /\ nsCalls.check < MaxChecks
    /\ \E order \in Orders(DOMAIN ns.pheromones) :
          LET r == check_consensus(ns, order)
          IN  /\ ns' = r.ns
              /\ nsRet' = r.ret
    /\ nsOp' = <<"check_consensus">>
    /\ nsPrev' = ns
    /\ nsCalls' = [nsCalls EXCEPT !.check = @ + 1]
    /\ UNCHANGED notNode

\* energies of the ants a NodeState starts with: 100.0, 0.2, 0.1
AntEnergies == {INITIAL_ANT_ENERGY, 2 * ENERGY_DECAY_RATE, ENERGY_DECAY_RATE}

\* ant lists after add_ant calls: ant i has id i and has lost some energy
AntLists ==
    {[i \in 1..n |-> [AntAgent_new(i, 1) EXCEPT !.energy_level = e[i]]] :
        n \in 0..MaxNodeAnts, e \in [1..MaxNodeAnts -> AntEnergies]}

NodeAntsInit ==
    /\ ns \in {[NodeState_new(1) EXCEPT !.ants = a, !.stats.ants_created = Len(a)] :
                 a \in AntLists}
    /\ nsPrev = ns
    /\ nsOp = <<"add_ant">>
    /\ nsRet = NoValue
    /\ nsCalls = NoCalls

NodeUpdateAnts ==
    /\ nsCalls.update < MaxUpdateCalls
    /\ ns' = update_ants(ns)
    /\ nsOp' = <<"update_ants">>
    /\ nsRet' = NoValue
    /\ nsPrev' = ns
    /\ nsCalls' = [nsCalls EXCEPT !.update = @ + 1]
    /\ UNCHANGED notNode

NodeCleanupDeadAnts ==
    /\ ns' = cleanup_dead_ants(ns)
    /\ nsOp' = <<"cleanup_dead_ants">>
    /\ nsRet' = NoValue
    /\ nsPrev' = ns
    /\ UNCHANGED <<nsCalls, notNode>>

(***************************************************************************)
(* A NodeState under inbound messages                                      *)
(***************************************************************************)
\* a signature that verifies under no key
InvalidSignature == [key |-> "invalid", msg |-> <<>>]

\* the pheromones that arrive in messages, placeholder-signed or not
InboundPheromones ==
    {[timestamp |-> 0, intensity |-> INITIAL_PHEROMONE_INTENSITY, source |-> 2, value |-> v,
      signature |-> sig] : v \in Values, sig \in {DummySignature, InvalidSignature}}

\* the messages that reach node 1: from itself and from node 2, ants bound
\* for node 1 and for node 3, neighbor lists with and without node 1
InboundMessages ==
    {PheromoneBroadcast(p, sender) : p \in InboundPheromones, sender \in {1, 2}}
        \cup {AntMovement(7, from_node, to_node, carried) :
                 from_node \in {1, 2}, to_node \in {1, 3},
                 carried \in {NoPheromone} \cup InboundPheromones}
        \cup {NeighborDiscoveryMsg(node_id, neighbors) :
                 node_id \in {1, 2}, neighbors \in {<<>>, <<3>>, <<1, 3>>}}
        \cup {ConsensusAnnouncement(node_id, value) : node_id \in {1, 2}, value \in Values}
        \cup {Heartbeat(node_id, 0) : node_id \in {1, 2}}

\* node 1 without ants, or with ant 7 that it created and that has moved on to
\* node 2 (move_ants leaves a moved ant in the list and skips it from then on)
NodeInboundInit ==
    /\ ns \in {NodeState_new(1), add_ant(NodeState_new(1), move_to(AntAgent_new(7, 1), 2))}
    /\ nsPrev = ns
    /\ nsOp = <<"new">>
    /\ nsRet = NoValue
    /\ nsCalls = NoCalls

\* the ids handle_message passes to add_neighbor
passed_to_add_neighbor(s, m) ==
    CASE m.type = "PheromoneBroadcast" -> IF m.sender = s.id THEN {} ELSE {m.sender}
      [] m.type = "NeighborDiscovery" ->
            IF m.node_id # s.id
            THEN {m.node_id} \cup {m.neighbors[i] : i \in 1..Len(m.neighbors)}
            ELSE {}
      [] m.type = "Heartbeat" -> IF m.node_id # s.id THEN {m.node_id} ELSE {}
      [] OTHER -> {}

NodeAddNeighbor ==
    /\ nsCalls.neighbor < MaxNeighborCalls
    /\ \E neighbor \in 1..3 :
          /\ ns' = add_neighbor(ns, neighbor)
          /\ nsOp' = <<"add_neighbor", neighbor>>
          /\ nsCalls' = [nsCalls EXCEPT !.neighbor = @ + 1, !.added = @ \cup {neighbor}]
    /\ nsRet' = NoValue
    /\ nsPrev' = ns
    /\ UNCHANGED notNode

NodeHandle ==
    /\ nsCalls.handle < MaxHandled
    /\ \E m \in InboundMessages :
          /\ ns' = handle_message(ns, m)
          /\ nsOp' = <<"handle_message", m>>
          /\ nsCalls' = [nsCalls EXCEPT !.handle = @ + 1,
                                        !.added = @ \cup passed_to_add_neighbor(ns, m)]
    /\ nsRet' = NoValue
    /\ nsPrev' = ns
    /\ UNCHANGED notNode

\* one round of ConsensusEngine::run: step (evaporate, update ants, check
\* consensus; no ant is at this node to be moved) and the store of Some(value)
\* into current_value
NodeRunStep ==
    /\ nsCalls.step < MaxNodeSteps
    /\ \E order \in Orders(DOMAIN evaporate_pheromones(ns).pheromones) :
          LET r == check_consensus(update_ants(evaporate_pheromones(ns)), order)
          IN  /\ ns' = IF r.ret # NoValue THEN [r.ns EXCEPT !.current_value = r.ret]
                                          ELSE r.ns
              /\ nsRet' = r.ret
    /\ nsOp' = <<"step">>
    /\ nsPrev' = ns
    /\ nsCalls' = [nsCalls EXCEPT !.step = @ + 1]
    /\ UNCHANGED notNode

\* propose_value's emission at the node
NodePropose ==
    /\ nsCalls.store < MaxCalls
    /\ \E value \in Values :
          LET r == emit_pheromone(ns, value, KeyEmpty, 0)
          IN  /\ ns' = r.ns
              /\ nsRet' = [ok |-> r.ok, val |-> r.val]
              /\ nsOp' = <<"emit_pheromone", value, KeyEmpty>>
    /\ nsPrev' = ns
    /\ nsCalls' = [nsCalls EXCEPT !.store = @ + 1]
    /\ UNCHANGED notNode

(***************************************************************************)
(* The network of nodes: consensus driver (consensus/ant_colony.rs,        *)
(* consensus/engine.rs), network tasks (network/multicast.rs,              *)
(* network/discovery.rs)                                                   *)
(***************************************************************************)
Nodes == 1..NumNodes
\* the tasks that call propose on a node
Proposers == {"p1", "p2"}
\* values of rng.gen::<f64>(): 0, 0.25, 0.5, 0.75, 0.9999
Draws == {0, 2500, 5000, 7500, One - 1}

\* no message built, no call in progress
NoMessage == [type |-> "none"]
NoEntry == [id |-> NoNode]

EngineIdle ==
    [pc |-> "tick", consensus |-> NoValue, ants_to_move |-> <<>>, neighbors |-> <<>>,
     pheromone_intensities |-> <<>>, message |-> NoMessage]
ProposerIdle ==
    [pc |-> "idle", value |-> NoValue, pheromone |-> NoPheromone, num_ants |-> 0,
     ant_id |-> 0, ant |-> NoPheromone, message |-> NoMessage, ret |-> NoValue,
     entry |-> NoEntry, enqueued |-> <<>>]
PeriodicIdle ==
    [heartbeat |-> [pc |-> "tick", message |-> NoMessage],
     discovery |-> [pc |-> "tick", message |-> NoMessage]]
\* what the tasks may still do: engine ticks, heartbeats and discovery
\* rounds of each node, propose calls and deliveries of the whole network
NoBudget ==
    [ticks |-> [n \in Nodes |-> 0],
     proposals |-> 0,
     deliveries |-> 0,
     heartbeats |-> [n \in Nodes |-> 0],
     discoveries |-> [n \in Nodes |-> 0]]

RECURSIVE SumOver(_, _)
SumOver(f, S) ==
    IF S = {} THEN 0
    ELSE LET x == CHOOSE y \in S : TRUE IN f[x] + SumOver(f, S \ {x})

\* the ways to share `total` among the nodes of S, none elsewhere
Shares(S, total) ==
    {f \in [Nodes -> 0..total] :
        SumOver(f, Nodes) = total /\ \A n \in Nodes \ S : f[n] = 0}

\* main: NodeState::new, NetworkManager::new, ConsensusEngine::new
SysIdle ==
    /\ lock = [n \in Nodes |-> Unlocked]
    /\ engine = [n \in Nodes |-> EngineIdle]
    /\ proposer = [n \in Nodes |-> [t \in Proposers |-> ProposerIdle]]
    /\ periodic = [n \in Nodes |-> PeriodicIdle]
    /\ next_ant_id = [n \in Nodes |-> 1]
    /\ outq = [n \in Nodes |-> <<>>]
    /\ closed = [n \in Nodes |-> FALSE]
    /\ net = {}
    /\ now = 0

\* the network at rest, for the specifications of single operations
SysInit ==
    /\ nodes = [n \in Nodes |-> NodeState_new(n)]
    /\ budget = NoBudget
    /\ SysIdle

\* mpsc::Sender::send: Err once the channel is closed, suspended while the
\* queue is full, else the message is enqueued
send_fails(n) == closed[n]
send_ready(n) == ~closed[n] /\ Len(outq[n]) < QueueCapacity
enqueue(n, m) == outq' = [outq EXCEPT ![n] = Append(@, m)]

-----------------------------------------------------------------------------
\* AntColonyConsensus::step, first part, under the write lock: evaporate,
\* update ants, check consensus
StepLocked(n) ==
    /\ engine[n].pc = "tick"
    /\ budget.ticks[n] > 0
    /\ can_write(lock[n])
    /\ LET s1 == update_ants(evaporate_pheromones(nodes[n]))
       IN  \E order \in Orders(DOMAIN s1.pheromones) :
              LET r == check_consensus(s1, order)
              IN  /\ nodes' = [nodes EXCEPT ![n] = r.ns]
                  /\ engine' = [engine EXCEPT ![n].consensus = r.ret,
                                              ![n].pc = IF r.ret # NoValue THEN "announce"
                                                        ELSE "move_ants"]
    /\ lock' = [lock EXCEPT ![n] = drop(write(@, "engine"), "engine")]
    /\ budget' = [budget EXCEPT !.ticks[n] = @ - 1]
    /\ UNCHANGED <<proposer, periodic, next_ant_id, outq, closed, net, now, notSys>>

\* announce_consensus: read the node id under the read lock
StepAnnounce(n) ==
    /\ engine[n].pc = "announce"
    /\ can_read(lock[n])
    /\ lock' = [lock EXCEPT ![n] = drop(read(@, "engine"), "engine")]
    /\ engine' = [engine EXCEPT ![n].pc = "announce_send",
                                ![n].message =
                                    ConsensusAnnouncement(nodes[n].id, engine[n].consensus)]
    /\ UNCHANGED <<nodes, proposer, periodic, next_ant_id, outq, closed, net, now, budget,
                   notSys>>

StepAnnounceSend_halts(n) ==
    /\ engine[n].pc = "announce_send"
    /\ \/ /\ send_fails(n)
          /\ engine' = [engine EXCEPT ![n].pc = "stopped"]
          /\ UNCHANGED outq
       \/ /\ send_ready(n)
          /\ enqueue(n, engine[n].message)
          /\ engine' = [engine EXCEPT ![n].pc = "move_ants", ![n].message = NoMessage]
    /\ UNCHANGED <<nodes, lock, proposer, periodic, next_ant_id, closed, net, now, budget,
                   notSys>>

\* announce_consensus: broadcast; an error ends the step (`?`) and the run
\* loop logs it and waits for the next tick
StepAnnounceSend(n) ==
    /\ engine[n].pc = "announce_send"
    /\ \/ /\ send_fails(n)
          /\ engine' = [engine EXCEPT ![n] = EngineIdle]
          /\ UNCHANGED outq
       \/ /\ send_ready(n)
          /\ enqueue(n, engine[n].message)
          /\ engine' = [engine EXCEPT ![n].pc = "move_ants", ![n].message = NoMessage]
    /\ UNCHANGED <<nodes, lock, proposer, periodic, next_ant_id, closed, net, now, budget,
                   notSys>>

\* move_ants: the snapshot of the live ants and of the neighbors
StepMoveSnapshot(n) ==
    /\ engine[n].pc = "move_ants"
    /\ can_read(lock[n])
    /\ lock' = [lock EXCEPT ![n] = drop(read(@, "engine"), "engine")]
    /\ \E neighbors \in get_neighbors(nodes[n]) :
          LET alive == SelectSeq(nodes[n].ants, is_alive)
          IN  engine' = [engine EXCEPT
                  ![n].pc = "move_loop",
                  ![n].neighbors = neighbors,
                  ![n].ants_to_move =
                      [i \in 1..Len(alive) |->
                          <<alive[i].id, alive[i].current_node, alive[i].carried_pheromone>>]]
    /\ UNCHANGED <<nodes, proposer, periodic, next_ant_id, outq, closed, net, now, budget,
                   notSys>>

\* get_pheromone_intensities: one (neighbor, 0.5) pair per neighbor
get_pheromone_intensities(s) ==
    {[i \in 1..Len(order) |-> <<order[i], PLACEHOLDER_INTENSITY>>] :
        order \in Orders(s.neighbors)}

\* the index of the first ant of the list with the id, or 0
find_ant(ants, ant_id) ==
    IF \E i \in 1..Len(ants) : ants[i].id = ant_id
    THEN Min({i \in 1..Len(ants) : ants[i].id = ant_id})
    ELSE 0

\* move_ants: the next ant of the snapshot; one that is not at this node is
\* skipped, else get_pheromone_intensities reads under the read lock
StepMoveIntensities(n) ==
    /\ engine[n].pc = "move_loop"
    /\ engine[n].ants_to_move # <<>>
    /\ IF Head(engine[n].ants_to_move)[2] # nodes[n].id
       THEN /\ engine' = [engine EXCEPT ![n].ants_to_move = Tail(@)]
            /\ UNCHANGED lock
       ELSE /\ can_read(lock[n])
            /\ lock' = [lock EXCEPT ![n] = drop(read(@, "engine"), "engine")]
            /\ \E pheromone_intensities \in get_pheromone_intensities(nodes[n]) :
                  engine' = [engine EXCEPT
                      ![n].pc = "move_select",
                      ![n].pheromone_intensities = pheromone_intensities]
    /\ UNCHANGED <<nodes, proposer, periodic, next_ant_id, outq, closed, net, now, budget,
                   notSys>>

\* move_ants: under the write lock, find the ant, select its next node and
\* move it there; the lock is dropped before the broadcast
StepMoveAnt(n) ==
    /\ engine[n].pc = "move_select"
    /\ can_write(lock[n])
    /\ lock' = [lock EXCEPT ![n] = drop(write(@, "engine"), "engine")]
    /\ LET ant_id == Head(engine[n].ants_to_move)[1]
           rest == Tail(engine[n].ants_to_move)
           i == find_ant(nodes[n].ants, ant_id)
       IN  \E gen \in Draws :
              LET next_node ==
                      IF i = 0 THEN NoNode
                      ELSE select_next_node(nodes[n].ants[i], engine[n].neighbors,
                                            engine[n].pheromone_intensities, gen, 1)
              IN  IF next_node = NoNode
                  THEN /\ engine' = [engine EXCEPT ![n].ants_to_move = rest,
                                                   ![n].pheromone_intensities = <<>>,
                                                   ![n].pc = "move_loop"]
                       /\ UNCHANGED nodes
                  ELSE /\ nodes' = [nodes EXCEPT ![n].ants[i] = move_to(@, next_node)]
                       /\ engine' = [engine EXCEPT
                             ![n].ants_to_move = rest,
                             ![n].pheromone_intensities = <<>>,
                             ![n].pc = "move_send",
                             ![n].message =
                                 AntMovement(ant_id, nodes[n].id, next_node,
                                             nodes[n].ants[i].carried_pheromone)]
    /\ UNCHANGED <<proposer, periodic, next_ant_id, outq, closed, net, now, budget, notSys>>

\* move_ants: broadcast the AntMovement; an error is logged and ignored
StepMoveSend(n) ==
    /\ engine[n].pc = "move_send"
    /\ \/ send_fails(n) /\ UNCHANGED outq
       \/ send_ready(n) /\ enqueue(n, engine[n].message)
    /\ engine' = [engine EXCEPT ![n].pc = "move_loop", ![n].message = NoMessage]
    /\ UNCHANGED <<nodes, lock, proposer, periodic, next_ant_id, closed, net, now, budget,
                   notSys>>

\* step returns Ok(consensus); ConsensusEngine::run stores Some(value) into
\* current_value under the write lock and waits for the next tick
RunAfterStep(n) ==
    /\ engine[n].pc = "move_loop"
    /\ engine[n].ants_to_move = <<>>
    /\ IF engine[n].consensus # NoValue
       THEN /\ can_write(lock[n])
            /\ lock' = [lock EXCEPT ![n] = drop(write(@, "engine"), "engine")]
            /\ nodes' = [nodes EXCEPT ![n].current_value = engine[n].consensus]
       ELSE UNCHANGED <<nodes, lock>>
    /\ engine' = [engine EXCEPT ![n] = EngineIdle]
    /\ UNCHANGED <<proposer, periodic, next_ant_id, outq, closed, net, now, budget, notSys>>

-----------------------------------------------------------------------------
\* propose_value: emit the pheromone under the write lock; an error is
\* returned to the caller
ProposeValue(n, t, value, private_key) ==
    /\ proposer[n][t].pc = "idle"
    /\ budget.proposals > 0
    /\ can_write(lock[n])
    /\ lock' = [lock EXCEPT ![n] = drop(write(@, t), t)]
    /\ LET r == emit_pheromone(nodes[n], value, private_key, now)
       IN  /\ nodes' = [nodes EXCEPT ![n] = r.ns]
           /\ proposer' = [proposer EXCEPT ![n][t] =
                 IF r.ok
                 THEN [ProposerIdle EXCEPT !.pc = "send_pheromone", !.value = value,
                                           !.pheromone = r.val, !.entry = nodes[n]]
                 ELSE [ProposerIdle EXCEPT !.pc = "returned", !.value = value,
                                           !.ret = "Err", !.entry = nodes[n]]]
    /\ budget' = [budget EXCEPT !.proposals = @ - 1]
    /\ UNCHANGED <<engine, periodic, next_ant_id, outq, closed, net, now, notSys>>

\* send_pheromone: read the node id under the read lock
SendPheromone(n, t) ==
    /\ proposer[n][t].pc = "send_pheromone"
    /\ can_read(lock[n])
    /\ lock' = [lock EXCEPT ![n] = drop(read(@, t), t)]
    /\ proposer' = [proposer EXCEPT
          ![n][t].pc = "broadcast",
          ![n][t].message = PheromoneBroadcast(proposer[n][t].pheromone, nodes[n].id)]
    /\ UNCHANGED <<nodes, engine, periodic, next_ant_id, outq, closed, net, now, budget,
                   notSys>>

ProposeBroadcast_rolls_back(n, t) ==
    /\ proposer[n][t].pc = "broadcast"
    /\ \/ /\ send_fails(n)
          /\ proposer' = [proposer EXCEPT ![n][t].pc = "returned", ![n][t].ret = "Err"]
          /\ nodes' = [nodes EXCEPT ![n] = proposer[n][t].entry]
          /\ UNCHANGED outq
       \/ /\ send_ready(n)
          /\ enqueue(n, proposer[n][t].message)
          /\ proposer' = [proposer EXCEPT
                ![n][t].pc = "explorer_ants",
                ![n][t].enqueued = Append(@, proposer[n][t].message)]
          /\ UNCHANGED nodes
    /\ UNCHANGED <<lock, engine, periodic, next_ant_id, closed, net, now, budget, notSys>>

\* send_pheromone: broadcast; an error is returned to the caller of propose
ProposeBroadcast(n, t) ==
    /\ proposer[n][t].pc = "broadcast"
    /\ \/ /\ send_fails(n)
          /\ proposer' = [proposer EXCEPT ![n][t].pc = "returned", ![n][t].ret = "Err"]
          /\ UNCHANGED outq
       \/ /\ send_ready(n)
          /\ enqueue(n, proposer[n][t].message)
          /\ proposer' = [proposer EXCEPT
                ![n][t].pc = "explorer_ants",
                ![n][t].enqueued = Append(@, proposer[n][t].message)]
    /\ UNCHANGED <<nodes, lock, engine, periodic, next_ant_id, closed, net, now, budget,
                   notSys>>

\* create_explorer_ants: the neighbors under the read lock; no neighbor, no
\* ant
ExplorerSnapshot(n, t) ==
    /\ proposer[n][t].pc = "explorer_ants"
    /\ can_read(lock[n])
    /\ lock' = [lock EXCEPT ![n] = drop(read(@, t), t)]
    /\ \E neighbors \in get_neighbors(nodes[n]) :
          proposer' = [proposer EXCEPT
              ![n][t].pc = IF neighbors = <<>> THEN "returned" ELSE "explorer_loop",
              ![n][t].ret = IF neighbors = <<>> THEN "Ok" ELSE NoValue,
              ![n][t].num_ants = IF Len(neighbors) < MAX_EXPLORER_ANTS THEN Len(neighbors)
                                 ELSE MAX_EXPLORER_ANTS]
    /\ UNCHANGED <<nodes, engine, periodic, next_ant_id, outq, closed, net, now, budget,
                   notSys>>

ExplorerMintId_load_store(n, t) ==
    /\ proposer[n][t].pc = "explorer_loop"
    /\ IF proposer[n][t].num_ants = 0
       THEN /\ proposer' = [proposer EXCEPT ![n][t].pc = "returned", ![n][t].ret = "Ok"]
            /\ UNCHANGED next_ant_id
       ELSE /\ proposer' = [proposer EXCEPT ![n][t].pc = "explorer_emit",
                                            ![n][t].ant_id = next_ant_id[n]]
            /\ \/ next_ant_id' = [next_ant_id EXCEPT ![n] = @ + 1]
               \/ UNCHANGED next_ant_id
    /\ UNCHANGED <<nodes, lock, engine, periodic, outq, closed, net, now, budget, notSys>>

\* create_explorer_ants: next_ant_id.fetch_add(1), or the end of the loop
ExplorerMintId(n, t) ==
    /\ proposer[n][t].pc = "explorer_loop"
    /\ IF proposer[n][t].num_ants = 0
       THEN /\ proposer' = [proposer EXCEPT ![n][t].pc = "returned", ![n][t].ret = "Ok"]
            /\ UNCHANGED next_ant_id
       ELSE /\ proposer' = [proposer EXCEPT ![n][t].pc = "explorer_emit",
                                            ![n][t].ant_id = next_ant_id[n]]
            /\ next_ant_id' = [next_ant_id EXCEPT ![n] = @ + 1]
    /\ UNCHANGED <<nodes, lock, engine, periodic, outq, closed, net, now, budget, notSys>>

\* create_explorer_ants: emit the pheromone the ant carries, signed with the
\* 32-byte zero key, under the write lock
ExplorerEmit(n, t) ==
    /\ proposer[n][t].pc = "explorer_emit"
    /\ can_write(lock[n])
    /\ lock' = [lock EXCEPT ![n] = drop(write(@, t), t)]
    /\ LET r == emit_pheromone(nodes[n], proposer[n][t].value, KeyZero32, now)
       IN  /\ nodes' = [nodes EXCEPT ![n] = r.ns]
           /\ proposer' = [proposer EXCEPT
                 ![n][t].pc = IF r.ok THEN "explorer_add" ELSE "returned",
                 ![n][t].ret = IF r.ok THEN NoValue ELSE "Err",
                 ![n][t].ant = IF r.ok
                               THEN with_pheromone(proposer[n][t].ant_id, nodes[n].id, r.val)
                               ELSE NoPheromone]
    /\ UNCHANGED <<engine, periodic, next_ant_id, outq, closed, net, now, budget, notSys>>

\* create_explorer_ants: add the ant under the write lock
ExplorerAdd(n, t) ==
    /\ proposer[n][t].pc = "explorer_add"
    /\ can_write(lock[n])
    /\ lock' = [lock EXCEPT ![n] = drop(write(@, t), t)]
    /\ nodes' = [nodes EXCEPT ![n] = add_ant(@, proposer[n][t].ant)]
    /\ proposer' = [proposer EXCEPT ![n][t].pc = "explorer_loop",
                                    ![n][t].num_ants = @ - 1,
                                    ![n][t].ant = NoPheromone]
    /\ UNCHANGED <<engine, periodic, next_ant_id, outq, closed, net, now, budget, notSys>>

\* the caller of propose takes the result
ProposeReturn(n, t) ==
    /\ proposer[n][t].pc = "returned"
    /\ proposer' = [proposer EXCEPT ![n][t] = ProposerIdle]
    /\ UNCHANGED <<nodes, lock, engine, periodic, next_ant_id, outq, closed, net, now, budget,
                   notSys>>

-----------------------------------------------------------------------------
\* the heartbeat task: read the node id under the read lock
HeartbeatTick(n) ==
    /\ periodic[n].heartbeat.pc = "tick"
    /\ budget.heartbeats[n] > 0
    /\ can_read(lock[n])
    /\ lock' = [lock EXCEPT ![n] = drop(read(@, "heartbeat"), "heartbeat")]
    /\ periodic' = [periodic EXCEPT ![n].heartbeat =
                       [pc |-> "send", message |-> Heartbeat(nodes[n].id, now)]]
    /\ budget' = [budget EXCEPT !.heartbeats[n] = @ - 1]
    /\ UNCHANGED <<nodes, engine, proposer, next_ant_id, outq, closed, net, now, notSys>>

\* the heartbeat task: send; the task ends when the send fails
HeartbeatSend(n) ==
    /\ periodic[n].heartbeat.pc = "send"
    /\ \/ /\ send_fails(n)
          /\ periodic' = [periodic EXCEPT ![n].heartbeat =
                             [pc |-> "stopped", message |-> NoMessage]]
          /\ UNCHANGED outq
       \/ /\ send_ready(n)
          /\ enqueue(n, periodic[n].heartbeat.message)
          /\ periodic' = [periodic EXCEPT ![n].heartbeat =
                             [pc |-> "tick", message |-> NoMessage]]
    /\ UNCHANGED <<nodes, lock, engine, proposer, next_ant_id, closed, net, now, budget,
                   notSys>>

\* NeighborDiscovery::start: read the id and the neighbors under the read
\* lock
DiscoveryTick(n) ==
    /\ periodic[n].discovery.pc = "tick"
    /\ budget.discoveries[n] > 0
    /\ can_read(lock[n])
    /\ lock' = [lock EXCEPT ![n] = drop(read(@, "discovery"), "discovery")]
    /\ \E neighbors \in get_neighbors(nodes[n]) :
          periodic' = [periodic EXCEPT ![n].discovery =
              [pc |-> "send", message |-> NeighborDiscoveryMsg(nodes[n].id, neighbors)]]
    /\ budget' = [budget EXCEPT !.discoveries[n] = @ - 1]
    /\ UNCHANGED <<nodes, engine, proposer, next_ant_id, outq, closed, net, now, notSys>>

\* NeighborDiscovery::start: broadcast; an error is logged
DiscoverySend(n) ==
    /\ periodic[n].discovery.pc = "send"
    /\ \/ send_fails(n) /\ UNCHANGED outq
       \/ send_ready(n) /\ enqueue(n, periodic[n].discovery.message)
    /\ periodic' = [periodic EXCEPT ![n].discovery = [pc |-> "tick", message |-> NoMessage]]
    /\ UNCHANGED <<nodes, lock, engine, proposer, next_ant_id, closed, net, now, budget,
                   notSys>>

\* the sender task: take the next message from the queue and send it to the
\* multicast group
SenderSend(n) ==
    /\ outq[n] # <<>>
    /\ net' = net \cup {Head(outq[n])}
    /\ outq' = [outq EXCEPT ![n] = Tail(@)]
    /\ UNCHANGED <<nodes, lock, engine, proposer, periodic, next_ant_id, closed, now, budget,
                   notSys>>

\* the receiver task: a datagram of the group arrives (any one, any number
\* of times, in any order) and is handled under the write lock
Deliver(n) ==
    /\ budget.deliveries > 0
    /\ can_write(lock[n])
    /\ lock' = [lock EXCEPT ![n] = drop(write(@, "receiver"), "receiver")]
    /\ \E m \in net : nodes' = [nodes EXCEPT ![n] = handle_message(@, m)]
    /\ budget' = [budget EXCEPT !.deliveries = @ - 1]
    /\ UNCHANGED <<engine, proposer, periodic, next_ant_id, outq, closed, net, now, notSys>>

\* the receiving half of the outbound channel is dropped
CloseQueue(n) ==
    /\ ~closed[n]
    /\ closed' = [closed EXCEPT ![n] = TRUE]
    /\ UNCHANGED <<nodes, lock, engine, proposer, periodic, next_ant_id, outq, net, now,
                   budget, notSys>>

(***************************************************************************)
(* An ant agent choosing its next node                                     *)
(***************************************************************************)
\* neighbor lists: none, one, two in both orders, three, and one that holds
\* the ant's start node
SelectNeighbors == {<<>>, <<2>>, <<2, 3>>, <<3, 2>>, <<2, 3, 4>>, <<1, 2>>}

\* intensity lists: none (every neighbor at the default 0.1), the engine's
\* 0.5 for every neighbor, all zero, one strong trail, one negative entry
SelectIntensities ==
    {<<>>,
     <<<<2, PLACEHOLDER_INTENSITY>>, <<3, PLACEHOLDER_INTENSITY>>, <<4, PLACEHOLDER_INTENSITY>>>>,
     <<<<2, 0>>, <<3, 0>>, <<4, 0>>>>,
     <<<<3, One>>, <<2, 0>>>>,
     <<<<2, 0 - PLACEHOLDER_INTENSITY>>, <<3, PLACEHOLDER_INTENSITY>>>>}

MaxIndex == 3

AntSelectInit ==
    /\ ant = AntAgent_new(1, 1)
    /\ antUpdates = 0

\* ant.select_next_node(&neighbors, &pheromone_intensities): takes &self
AntSelectNextNode ==
    /\ \E neighbors \in SelectNeighbors, pheromone_intensities \in SelectIntensities,
          gen \in Draws, index \in 1..MaxIndex :
          selected' = [called |-> TRUE,
                       neighbors |-> neighbors,
                       pheromone_intensities |-> pheromone_intensities,
                       ant |-> ant,
                       ret |-> select_next_node(ant, neighbors, pheromone_intensities,
                                                gen, index)]
    /\ UNCHANGED <<antVars, wire, notCall>>

\* ant.move_to(next_node) with the node selected, as move_ants does
AntMoveSelected ==
    /\ selected # NoSelection
    /\ selected.ret # NoNode
    /\ ant' = move_to(ant, selected.ret)
    /\ selected' = NoSelection
    /\ UNCHANGED <<antUpdates, wire, notCall>>

(***************************************************************************)
(* Messages on the wire (serde_json)                                       *)
(***************************************************************************)
\* f64 infinities
Infinity == 2 * One * One
NegInfinity == 0 - Infinity
is_finite(x) == x \notin {NaN, Infinity, NegInfinity}

\* JSON values: null, a number, an array, an object (a record of JSON values)
JsonNull == [null |-> TRUE]
JsonNumber(n) == [num |-> n]
JsonArray(a) == [array |-> a]

\* serde_json writes a finite f64 as a number (shortest digits that read back
\* as the same f64) and a NaN or an infinity as null
ser_f64(x) == IF is_finite(x) THEN JsonNumber(x) ELSE JsonNull

\* serde_json reads an f64 from a number only
de_f64(j) ==
    IF j = JsonNull THEN [ok |-> FALSE, val |-> "invalid type: null, expected f64"]
    ELSE [ok |-> TRUE, val |-> j.num]

\* #[derive(Serialize)] of Pheromone: an object of its five fields
ser_pheromone(p) ==
    [timestamp |-> JsonNumber(p.timestamp),
     intensity |-> ser_f64(p.intensity),
     source |-> JsonNumber(p.source),
     value |-> [hash |-> JsonArray(p.value)],
     signature |-> JsonArray(p.signature)]

\* #[derive(Deserialize)] of Pheromone
de_pheromone(j) ==
    LET intensity == de_f64(j.intensity)
    IN  IF intensity.ok
        THEN [ok |-> TRUE,
              val |-> [timestamp |-> j.timestamp.num,
                       intensity |-> intensity.val,
                       source |-> j.source.num,
                       value |-> j.value.hash.array,
                       signature |-> j.signature.array]]
        ELSE intensity

\* Option<Pheromone>: None is null
ser_option(o) == IF o = NoPheromone THEN JsonNull ELSE ser_pheromone(o)
de_option(j) == IF j = JsonNull THEN [ok |-> TRUE, val |-> NoPheromone] ELSE de_pheromone(j)

\* Message::to_bytes: serde_json::to_vec of the externally tagged enum
to_bytes(m) ==
    [ok |-> TRUE,
     val |->
        [variant |-> m.type,
         content |->
            CASE m.type = "PheromoneBroadcast" ->
                    [pheromone |-> ser_pheromone(m.pheromone), sender |-> JsonNumber(m.sender)]
              [] m.type = "AntMovement" ->
                    [ant_id |-> JsonNumber(m.ant_id),
                     from_node |-> JsonNumber(m.from_node),
                     to_node |-> JsonNumber(m.to_node),
                     carried_pheromone |-> ser_option(m.carried_pheromone)]
              [] m.type = "NeighborDiscovery" ->
                    [node_id |-> JsonNumber(m.node_id),
                     neighbors |->
                         JsonArray([i \in 1..Len(m.neighbors) |-> JsonNumber(m.neighbors[i])])]
              [] m.type = "ConsensusAnnouncement" ->
                    [node_id |-> JsonNumber(m.node_id), value |-> [hash |-> JsonArray(m.value)]]
              [] m.type = "Heartbeat" ->
                    [node_id |-> JsonNumber(m.node_id),
                     timestamp |-> JsonNumber(m.timestamp)]]]

\* Message::from_bytes: serde_json::from_slice
from_bytes(data) ==
    LET c == data.content
    IN  CASE data.variant = "PheromoneBroadcast" ->
                LET p == de_pheromone(c.pheromone)
                IN  IF p.ok
                    THEN [ok |-> TRUE, val |-> PheromoneBroadcast(p.val, c.sender.num)]
                    ELSE p
          [] data.variant = "AntMovement" ->
                LET p == de_option(c.carried_pheromone)
                IN  IF p.ok
                    THEN [ok |-> TRUE,
                          val |-> AntMovement(c.ant_id.num, c.from_node.num, c.to_node.num,
                                              p.val)]
                    ELSE p
          [] data.variant = "NeighborDiscovery" ->
                [ok |-> TRUE,
                 val |-> NeighborDiscoveryMsg(
                             c.node_id.num,
                             [i \in 1..Len(c.neighbors.array) |-> c.neighbors.array[i].num])]
          [] data.variant = "ConsensusAnnouncement" ->
                [ok |-> TRUE, val |-> ConsensusAnnouncement(c.node_id.num, c.value.hash.array)]
          [] data.variant = "Heartbeat" ->
                [ok |-> TRUE, val |-> Heartbeat(c.node_id.num, c.timestamp.num)]

\* intensities: fresh, evaporated once, zero, above 1 (evaporate with a negative
\* rate), NaN and infinite
WireIntensities == {One, One - DEFAULT_EVAPORATION_RATE, 0, 15000, NaN, Infinity}

WirePheromones ==
    {[timestamp |-> t, intensity |-> i, source |-> 1, value |-> v, signature |-> sig] :
        t \in 0..MaxClock, i \in WireIntensities, v \in Values,
        sig \in {DummySignature, InvalidSignature}}

WireMessages ==
    {PheromoneBroadcast(p, 1) : p \in WirePheromones}
        \cup {AntMovement(7, 1, 2, carried) : carried \in {NoPheromone} \cup WirePheromones}
        \cup {NeighborDiscoveryMsg(1, neighbors) : neighbors \in {<<>>, <<2>>, <<3, 2>>}}
        \cup {ConsensusAnnouncement(1, value) : value \in Values}
        \cup {Heartbeat(1, t) : t \in 0..MaxClock}

NoParse == [ok |-> FALSE, val |-> "not parsed"]

\* the sender task: message.to_bytes()
WireToBytes ==
    /\ \E m \in WireMessages :
          wire' = [sent |-> TRUE, message |-> m, bytes |-> to_bytes(m), parsed |-> NoParse]
    /\ UNCHANGED <<selected, antVars, notCall>>

\* the receiver task: Message::from_bytes of the datagram
WireFromBytes ==
    /\ wire # NoWire
    /\ wire.bytes.ok
    /\ wire.parsed = NoParse
    /\ wire' = [wire EXCEPT !.parsed = from_bytes(wire.bytes.val)]
    /\ UNCHANGED <<selected, antVars, notCall>>

(***************************************************************************)
(* Specifications                                                          *)
(***************************************************************************)
\* evaporate called with rates in [0,1] only
PherEvaporateUnit == (\E r \in UnitRates : PherEvaporate(r)) /\ UNCHANGED notPher
PherNext == PherEvaporateUnit
InitPheromone == PherInit /\ AntInit0 /\ NodeInit0 /\ SysInit /\ CallInit0
SpecPheromone == InitPheromone /\ [][PherNext]_vars

\* evaporate called with any rate
PherEvaporateAny == (\E r \in Rates : PherEvaporate(r)) /\ UNCHANGED notPher
PherNextAnyRate == PherEvaporateAny
SpecPheromoneAnyRate == InitPheromone /\ [][PherNextAnyRate]_vars

AntNext ==
    \/ AntMoveTo
    \/ AntUpdateEnergy
    \/ AntDropPheromone
    \/ AntPickUpPheromone
InitAnt == AntInit /\ PherInit0 /\ NodeInit0 /\ SysInit /\ CallInit0
SpecAnt == InitAnt /\ [][AntNext]_vars

\* an ant that selects its next node and moves there
AntSelectNext ==
    \/ AntSelectNextNode
    \/ AntMoveSelected
InitAntSelect == AntSelectInit /\ PherInit0 /\ NodeInit0 /\ SysInit /\ CallInit0
SpecAntSelect == InitAntSelect /\ [][AntSelectNext]_vars

\* messages serialized by the sender task and parsed by the receiver task
WireNext ==
    \/ WireToBytes
    \/ WireFromBytes
InitWire == AntInit0 /\ PherInit0 /\ NodeInit0 /\ SysInit /\ CallInit0
SpecWire == InitWire /\ [][WireNext]_vars

\* the pheromone operations of one NodeState
NodePheromonesNext ==
    \/ NodeEmit
    \/ NodeReceive
    \/ NodeEvaporate
    \/ NodeCheckConsensus
InitNodePheromones == NodeInit0 /\ PherInit0 /\ AntInit0 /\ SysInit /\ CallInit0
SpecNodePheromones == InitNodePheromones /\ [][NodePheromonesNext]_vars

\* the ant operations of one NodeState
NodeAntsNext ==
    \/ NodeUpdateAnts
    \/ NodeCleanupDeadAnts
InitNodeAnts == NodeAntsInit /\ PherInit0 /\ AntInit0 /\ SysInit /\ CallInit0
SpecNodeAnts == InitNodeAnts /\ [][NodeAntsNext]_vars

\* one NodeState under inbound messages, add_neighbor calls, proposals and
\* the step loop
NodeInboundNext ==
    \/ NodeAddNeighbor
    \/ NodeHandle
    \/ NodeRunStep
    \/ NodePropose
InitNodeInbound == NodeInboundInit /\ PherInit0 /\ AntInit0 /\ SysInit /\ CallInit0
SpecNodeInbound == InitNodeInbound /\ [][NodeInboundNext]_vars

\* the budgets of a network whose nodes of S tick, MaxTicks times in all
Budgets(S, proposals) ==
    {[NoBudget EXCEPT !.ticks = ticks, !.proposals = proposals,
                      !.deliveries = MaxDeliveries] : ticks \in Shares(S, MaxTicks)}

\* the network: every node runs its engine, its sender and receiver tasks
\* and takes propose calls; no node holds an ant, since no explorer ant can
\* be created (ExplorerEmit)
Next ==
    \E n \in Nodes :
        \/ StepLocked(n)
        \/ StepAnnounce(n)
        \/ StepAnnounceSend(n)
        \/ StepMoveSnapshot(n)
        \/ RunAfterStep(n)
        \/ \E value \in Values : ProposeValue(n, "p1", value, KeyEmpty)
        \/ SendPheromone(n, "p1")
        \/ ProposeBroadcast(n, "p1")
        \/ ExplorerSnapshot(n, "p1")
        \/ ExplorerMintId(n, "p1")
        \/ ExplorerEmit(n, "p1")
        \/ ProposeReturn(n, "p1")
        \/ SenderSend(n)
        \/ Deliver(n)
Init ==
    /\ nodes = [n \in Nodes |-> NodeState_new(n)]
    /\ budget \in Budgets(Nodes, MaxProposals)
    /\ SysIdle
    /\ PherInit0
    /\ AntInit0
    /\ CallInit0
    /\ NodeInit0
Spec == Init /\ [][Next]_vars

\* the network in which one value only is proposed, the outbound channels
\* stay open, and every engine and every sender task keeps running; the
\* nodes start unknown to each other, or known from their heartbeats
Acquainted(n) ==
    add_neighbors(NodeState_new(n), CHOOSE order \in Orders(Nodes \ {n}) : TRUE)
NextOneValue ==
    \E n \in Nodes :
        \/ StepLocked(n)
        \/ StepAnnounce(n)
        \/ StepAnnounceSend(n)
        \/ StepMoveSnapshot(n)
        \/ RunAfterStep(n)
        \/ ProposeValue(n, "p1", "v1", KeyEmpty)
        \/ SendPheromone(n, "p1")
        \/ ProposeBroadcast(n, "p1")
        \/ ExplorerSnapshot(n, "p1")
        \/ ExplorerMintId(n, "p1")
        \/ ExplorerEmit(n, "p1")
        \/ ProposeReturn(n, "p1")
        \/ SenderSend(n)
        \/ Deliver(n)
EngineRuns(n) ==
    \/ StepLocked(n)
    \/ StepAnnounce(n)
    \/ StepAnnounceSend(n)
    \/ StepMoveSnapshot(n)
    \/ RunAfterStep(n)
InitOneValue ==
    /\ nodes \in {[n \in Nodes |-> NodeState_new(n)], [n \in Nodes |-> Acquainted(n)]}
    /\ budget \in {[NoBudget EXCEPT !.ticks = [n \in Nodes |-> MaxTicks],
                                    !.proposals = MaxCalls,
                                    !.deliveries = MaxDeliveries]}
    /\ SysIdle
    /\ PherInit0
    /\ AntInit0
    /\ CallInit0
    /\ NodeInit0
FairSpec ==
    /\ InitOneValue
    /\ [][NextOneValue]_vars
    /\ \A n \in Nodes : WF_vars(EngineRuns(n)) /\ WF_vars(SenderSend(n))

\* one node with every task: the engine with an ant to move, a proposer,
\* the heartbeat and discovery tasks, the sender and the receiver; the
\* neighbors and the ant of the start come from add_neighbor and add_ant
NodeStarts ==
    {NodeState_new(1),
     add_ant(add_neighbor(add_neighbor(NodeState_new(1), 2), 3), AntAgent_new(1, 1))}
NextNode ==
    \/ StepLocked(1)
    \/ StepAnnounce(1)
    \/ StepAnnounceSend(1)
    \/ StepMoveSnapshot(1)
    \/ StepMoveIntensities(1)
    \/ StepMoveAnt(1)
    \/ StepMoveSend(1)
    \/ RunAfterStep(1)
    \/ ProposeValue(1, "p1", "v1", KeyEmpty)
    \/ SendPheromone(1, "p1")
    \/ ProposeBroadcast(1, "p1")
    \/ ExplorerSnapshot(1, "p1")
    \/ ExplorerMintId(1, "p1")
    \/ ExplorerEmit(1, "p1")
    \/ ProposeReturn(1, "p1")
    \/ HeartbeatTick(1)
    \/ HeartbeatSend(1)
    \/ DiscoveryTick(1)
    \/ DiscoverySend(1)
    \/ SenderSend(1)
    \/ Deliver(1)
    \/ CloseQueue(1)
InitNode ==
    /\ nodes \in {[n \in Nodes |-> IF n = 1 THEN s ELSE NodeState_new(n)] : s \in NodeStarts}
    /\ budget \in {[b EXCEPT !.heartbeats[1] = MaxHeartbeats,
                               !.discoveries[1] = MaxDiscoveries] : b \in Budgets({1}, MaxCalls)}
    /\ SysIdle
    /\ PherInit0
    /\ AntInit0
    /\ CallInit0
    /\ NodeInit0
SpecNode == InitNode /\ [][NextNode]_vars

\* the engine of one node that holds an ant, fresh or at its last unit of
\* energy, knows one neighbor or two, and holds no pheromone or a strong one
TourStarts ==
    LET held == {NodeState_new(1),
                 receive_pheromone(
                     NodeState_new(1),
                     [timestamp |-> 0, intensity |-> INITIAL_PHEROMONE_INTENSITY,
                      source |-> 2, value |-> "v1", signature |-> DummySignature])}
        known == {add_neighbors(u, list) : u \in held, list \in {<<2>>, <<2, 3>>}}
    IN  {add_ant(t, [AntAgent_new(1, 1) EXCEPT !.energy_level = e]) :
            t \in known, e \in {INITIAL_ANT_ENERGY, 2 * ENERGY_DECAY_RATE, ENERGY_DECAY_RATE}}
NextTour ==
    \/ StepLocked(1)
    \/ StepAnnounce(1)
    \/ StepAnnounceSend(1)
    \/ StepMoveSnapshot(1)
    \/ StepMoveIntensities(1)
    \/ StepMoveAnt(1)
    \/ StepMoveSend(1)
    \/ RunAfterStep(1)
    \/ SenderSend(1)
InitTour ==
    /\ nodes \in {[n \in Nodes |-> IF n = 1 THEN s ELSE NodeState_new(n)] : s \in TourStarts}
    /\ budget \in Budgets({1}, 0)
    /\ SysIdle
    /\ PherInit0
    /\ AntInit0
    /\ CallInit0
    /\ NodeInit0
SpecTour == InitTour /\ [][NextTour]_vars

\* propose calls alone on one node that knows 0, 1 or 6 neighbors
ProposeStarts ==
    {add_neighbors(NodeState_new(1), [i \in 1..k |-> i + 1]) :
        k \in {0, 1, MAX_EXPLORER_ANTS + 1}}
NextPropose ==
    \/ \E value \in Values, private_key \in Keys : ProposeValue(1, "p1", value, private_key)
    \/ SendPheromone(1, "p1")
    \/ ProposeBroadcast(1, "p1")
    \/ ExplorerSnapshot(1, "p1")
    \/ ExplorerMintId(1, "p1")
    \/ ExplorerEmit(1, "p1")
    \/ ProposeReturn(1, "p1")
    \/ SenderSend(1)
    \/ CloseQueue(1)
InitPropose ==
    /\ nodes \in {[n \in Nodes |-> IF n = 1 THEN s ELSE NodeState_new(n)] : s \in ProposeStarts}
    /\ budget \in {[NoBudget EXCEPT !.proposals = MaxProposals]}
    /\ SysIdle
    /\ PherInit0
    /\ AntInit0
    /\ CallInit0
    /\ NodeInit0
SpecPropose == InitPropose /\ [][NextPropose]_vars

\* two concurrent propose calls on one node that knows 0, 1 or 6 neighbors
NextProposeTwo ==
    \E t \in Proposers :
        \/ ProposeValue(1, t, "v1", KeyEmpty)
        \/ SendPheromone(1, t)
        \/ ProposeBroadcast(1, t)
        \/ ExplorerSnapshot(1, t)
        \/ ExplorerMintId(1, t)
        \/ ExplorerEmit(1, t)
        \/ ProposeReturn(1, t)
        \/ SenderSend(1)
InitProposeTwo ==
    /\ nodes \in {[n \in Nodes |-> IF n = 1 THEN s ELSE NodeState_new(n)] : s \in ProposeStarts}
    /\ budget \in {[NoBudget EXCEPT !.proposals = MaxProposals]}
    /\ SysIdle
    /\ PherInit0
    /\ AntInit0
    /\ CallInit0
    /\ NodeInit0
SpecProposeTwo == InitProposeTwo /\ [][NextProposeTwo]_vars

\* what the timers and the socket of a running node allow next: one step,
\* one heartbeat, one datagram; no propose call and no discovery round
MainBudget ==
    [NoBudget EXCEPT !.ticks = [n \in Nodes |-> 1],
                     !.heartbeats = [n \in Nodes |-> 1],
                     !.deliveries = 1]

\* time passes: the interval timers of the engine (100 ms) and of the
\* heartbeat task (5 s) fire again and the socket can be read again
TimePasses ==
    /\ budget # MainBudget
    /\ budget' = MainBudget
    /\ UNCHANGED <<nodes, lock, engine, proposer, periodic, next_ant_id, outq, closed, net, now,
                   notSys>>

\* the heartbeat task of NetworkManager::start
HeartbeatRuns(n) ==
    \/ HeartbeatTick(n)
    \/ HeartbeatSend(n)

\* the engine of a node that holds no pheromone and no ant
EngineIdles(n) ==
    \/ StepLocked(n)
    \/ StepMoveSnapshot(n)
    \/ RunAfterStep(n)

\* the nodes as main wires them: NetworkManager::start (receiver, sender and
\* heartbeat tasks) and ConsensusEngine::run; main makes no propose call and
\* creates no NeighborDiscovery
NextMain ==
    \/ \E n \in Nodes :
          \/ StepLocked(n)
          \/ StepMoveSnapshot(n)
          \/ RunAfterStep(n)
          \/ HeartbeatTick(n)
          \/ HeartbeatSend(n)
          \/ SenderSend(n)
          \/ Deliver(n)
    \/ TimePasses
InitMain ==
    /\ nodes = [n \in Nodes |-> NodeState_new(n)]
    /\ budget = MainBudget
    /\ SysIdle
    /\ PherInit0
    /\ AntInit0
    /\ CallInit0
    /\ NodeInit0
FairSpecMain ==
    /\ InitMain
    /\ [][NextMain]_vars
    /\ WF_vars(TimePasses)
    /\ \A n \in Nodes :
          /\ WF_vars(EngineIdles(n))
          /\ WF_vars(HeartbeatRuns(n))
          /\ WF_vars(SenderSend(n))
          /\ WF_vars(Deliver(n))

\* the proposal block of the simple simulation: node_state.write().await; the
\* guard lives until the end of the block
SimLock(n, t) ==
    /\ proposer[n][t].pc = "idle"
    /\ can_write(lock[n])
    /\ lock' = [lock EXCEPT ![n] = write(@, t)]
    /\ proposer' = [proposer EXCEPT ![n][t].pc = "sim_locked"]
    /\ UNCHANGED <<nodes, engine, periodic, next_ant_id, outq, closed, net, now, budget,
                   notSys>>

\* the block calls emit_pheromone through its write guard; on Ok it goes on
\* to network.send_pheromone with the guard still alive, on Err it leaves the
\* block
SimEmit(n, t, value, private_key) ==
    /\ proposer[n][t].pc = "sim_locked"
    /\ lock[n].writer = t
    /\ LET r == emit_pheromone(nodes[n], value, private_key, now)
       IN  /\ nodes' = [nodes EXCEPT ![n] = r.ns]
           /\ proposer' = [proposer EXCEPT ![n][t] =
                 IF r.ok
                 THEN [ProposerIdle EXCEPT !.pc = "send_pheromone", !.value = value,
                                           !.pheromone = r.val, !.entry = nodes[n]]
                 ELSE [ProposerIdle EXCEPT !.pc = "sim_unlock", !.value = value,
                                           !.ret = "Err", !.entry = nodes[n]]]
    /\ UNCHANGED <<lock, engine, periodic, next_ant_id, outq, closed, net, now, budget,
                   notSys>>

\* the end of the block drops the write guard
SimUnlock(n, t) ==
    /\ proposer[n][t].pc = "sim_unlock"
    /\ lock' = [lock EXCEPT ![n] = drop(@, t)]
    /\ proposer' = [proposer EXCEPT ![n][t].pc = "returned"]
    /\ UNCHANGED <<nodes, engine, periodic, next_ant_id, outq, closed, net, now, budget,
                   notSys>>

\* the steps of the simulation's proposal task; send_pheromone is the same
\* function whoever calls it, and it starts by awaiting the read lock
SimRuns(n, t) ==
    \/ SimLock(n, t)
    \/ \E value \in Values, private_key \in Keys : SimEmit(n, t, value, private_key)
    \/ SendPheromone(n, t)
    \/ SimUnlock(n, t)

\* one NodeState shared by the simulation's proposal block (task p1) and by a
\* caller of propose_value (task p2), which drops its write guard before it
\* calls send_pheromone
NextSim ==
    \/ SimLock(1, "p1")
    \/ \E value \in Values, private_key \in Keys : SimEmit(1, "p1", value, private_key)
    \/ SimUnlock(1, "p1")
    \/ \E t \in Proposers : SendPheromone(1, t)
    \/ \E value \in Values, private_key \in Keys : ProposeValue(1, "p2", value, private_key)
    \/ ProposeBroadcast(1, "p2")
    \/ ExplorerSnapshot(1, "p2")
    \/ ProposeReturn(1, "p2")
    \/ SenderSend(1)
InitSim ==
    /\ nodes = [n \in Nodes |-> NodeState_new(n)]
    /\ budget = [NoBudget EXCEPT !.proposals = MaxProposals]
    /\ SysIdle
    /\ PherInit0
    /\ AntInit0
    /\ CallInit0
    /\ NodeInit0
SpecSim == InitSim /\ [][NextSim]_vars

\* a node that has just started, and a node whose user proposed v1 with the
\* empty key right after the start (propose_value has returned and no peer
\* was there to receive the datagram)
RunStarts ==
    {NodeState_new(1), emit_pheromone(NodeState_new(1), "v1", KeyEmpty, 0).ns}

\* one node that runs for some seconds and whose user proposes now and then;
\* no datagram reaches it, and its outbound queue may close
NextRun ==
    \/ StepLocked(1)
    \/ StepAnnounce(1)
    \/ StepAnnounceSend(1)
    \/ StepMoveSnapshot(1)
    \/ RunAfterStep(1)
    \/ ProposeValue(1, "p1", "v1", KeyEmpty)
    \/ SendPheromone(1, "p1")
    \/ ProposeBroadcast(1, "p1")
    \/ ExplorerSnapshot(1, "p1")
    \/ ProposeReturn(1, "p1")
    \/ SenderSend(1)
    \/ CloseQueue(1)
InitRun ==
    /\ nodes \in {[n \in Nodes |-> IF n = 1 THEN s ELSE NodeState_new(n)] : s \in RunStarts}
    /\ budget = [NoBudget EXCEPT !.ticks[1] = MaxRunTicks, !.proposals = MaxCalls]
    /\ SysIdle
    /\ PherInit0
    /\ AntInit0
    /\ CallInit0
    /\ NodeInit0
SpecRun == InitRun /\ [][NextRun]_vars

\* node 1 knows node 2; it holds nothing, or it holds a pheromone for v1 and
\* an ant that carries the copy emit_pheromone returned (with_pheromone,
\* add_ant), as create_explorer_ants builds them
CarryStarts ==
    LET known == add_neighbor(NodeState_new(1), 2)
        r == emit_pheromone(known, "v1", KeyEmpty, 0)
    IN  {known, add_ant(r.ns, with_pheromone(1, 1, r.val))}

\* node 1 steps, moves its ant and proposes; node 2 receives
NextCarry ==
    \/ StepLocked(1)
    \/ StepAnnounce(1)
    \/ StepAnnounceSend(1)
    \/ StepMoveSnapshot(1)
    \/ StepMoveIntensities(1)
    \/ StepMoveAnt(1)
    \/ StepMoveSend(1)
    \/ RunAfterStep(1)
    \/ ProposeValue(1, "p1", "v1", KeyEmpty)
    \/ SendPheromone(1, "p1")
    \/ ProposeBroadcast(1, "p1")
    \/ ExplorerSnapshot(1, "p1")
    \/ ExplorerMintId(1, "p1")
    \/ ExplorerEmit(1, "p1")
    \/ ProposeReturn(1, "p1")
    \/ SenderSend(1)
    \/ Deliver(2)
InitCarry ==
    /\ nodes \in {[n \in Nodes |-> IF n = 1 THEN s ELSE NodeState_new(n)] : s \in CarryStarts}
    /\ budget \in Budgets({1}, MaxCalls)
    /\ SysIdle
    /\ PherInit0
    /\ AntInit0
    /\ CallInit0
    /\ NodeInit0
SpecCarry == InitCarry /\ [][NextCarry]_vars

\* node 1 knows node 2 and has proposed v1; it may hold an ant that is about
\* to die, or a pheromone received for v2 and an ant with MaxAntSteps steps
\* to live
QuietStarts ==
    LET emitted == emit_pheromone(add_neighbor(NodeState_new(1), 2), "v1", KeyEmpty, 0).ns
        received == receive_pheromone(
                        emitted,
                        [timestamp |-> 0, intensity |-> INITIAL_PHEROMONE_INTENSITY,
                         source |-> 2, value |-> "v2", signature |-> DummySignature])
    IN  {emitted,
         add_ant(emitted, [AntAgent_new(1, 1) EXCEPT !.energy_level = 2 * ENERGY_DECAY_RATE]),
         add_ant(received,
                 [AntAgent_new(1, 1) EXCEPT !.energy_level = MaxAntSteps * ENERGY_DECAY_RATE])}

\* the step of the engine, ants included
EngineSteps(n) ==
    \/ StepLocked(n)
    \/ StepAnnounce(n)
    \/ StepAnnounceSend(n)
    \/ StepMoveSnapshot(n)
    \/ StepMoveIntensities(n)
    \/ StepMoveAnt(n)
    \/ StepMoveSend(n)
    \/ RunAfterStep(n)

\* node 1 from the point on from which it emits and receives nothing more
\* and nobody proposes: its engine steps at every tick and its sender task
\* sends
NextQuiet ==
    \/ StepLocked(1)
    \/ StepAnnounce(1)
    \/ StepAnnounceSend(1)
    \/ StepMoveSnapshot(1)
    \/ StepMoveIntensities(1)
    \/ StepMoveAnt(1)
    \/ StepMoveSend(1)
    \/ RunAfterStep(1)
    \/ SenderSend(1)
    \/ TimePasses
InitQuiet ==
    /\ nodes \in {[n \in Nodes |-> IF n = 1 THEN s ELSE NodeState_new(n)] : s \in QuietStarts}
    /\ budget = MainBudget
    /\ SysIdle
    /\ PherInit0
    /\ AntInit0
    /\ CallInit0
    /\ NodeInit0
FairSpecQuiet ==
    /\ InitQuiet
    /\ [][NextQuiet]_vars
    /\ WF_vars(TimePasses)
    /\ WF_vars(EngineSteps(1))
    /\ WF_vars(SenderSend(1))

(***************************************************************************)
(* Claims                                                                  *)
(***************************************************************************)
Abs(x) == IF x < 0 THEN 0 - x ELSE x

\* C1: whenever two nodes both hold a latched current_value, the two values
\* are equal, also when different nodes propose different values.
C1_Agreement ==
    \A a, b \in Nodes :
        nodes[a].current_value # NoValue /\ nodes[b].current_value # NoValue
            => nodes[a].current_value = nodes[b].current_value

\* node n holds a pheromone for value
Stored(n, value) == value \in DOMAIN nodes[n].pheromones
\* node n has enqueued a ConsensusAnnouncement for value
Announced(n, value) ==
    \/ ConsensusAnnouncement(n, value) \in net
    \/ \E i \in 1..Len(outq[n]) : outq[n][i] = ConsensusAnnouncement(n, value)

C4_OneShotLatch ==
    [][\A n \in Nodes :
          nodes[n].current_value # NoValue
              => nodes'[n].current_value = nodes[n].current_value]_vars

\* the elements of seq after the first n
After(seq, n) == SubSeq(seq, n + 1, Len(seq))
\* the pheromones a node state holds for value
Bucket(s, value) == IF value \in DOMAIN s.pheromones THEN s.pheromones[value] ELSE <<>>

\* C5: a propose(value, key) whose key is accepted and whose broadcast is
\* enqueued, on a node with n known neighbors, returns Ok having appended
\* exactly 1 + min(n, 5) pheromones of intensity 1.0 to pheromones[value],
\* incremented pheromones_emitted by the same amount, added exactly
\* min(n, 5) ants located at the node, each carrying a pheromone for value,
\* and enqueued exactly one PheromoneBroadcast whose sender is the node's id.
C5_ProposeEffects ==
    \A n \in Nodes, t \in Proposers :
        LET call == proposer[n][t]
            before == call.entry
            after == nodes[n]
            count == Min({Cardinality(before.neighbors), MAX_EXPLORER_ANTS})
            old == Bucket(before, call.value)
            new == Bucket(after, call.value)
            ants == After(after.ants, Len(before.ants))
        IN  call.pc = "returned" /\ call.enqueued # <<>>
            => /\ call.ret = "Ok"
               /\ Len(new) = Len(old) + 1 + count
               /\ SubSeq(new, 1, Len(old)) = old
               /\ \A i \in Len(old) + 1..Len(new) :
                     new[i].intensity = INITIAL_PHEROMONE_INTENSITY
               /\ after.stats.pheromones_emitted
                     = before.stats.pheromones_emitted + 1 + count
               /\ Len(after.ants) = Len(before.ants) + count
               /\ \A i \in 1..Len(ants) :
                     /\ ants[i].current_node = after.id
                     /\ ants[i].carried_pheromone # NoPheromone
                     /\ ants[i].carried_pheromone.value = call.value
               /\ Len(call.enqueued) = 1
               /\ call.enqueued[1].type = "PheromoneBroadcast"
               /\ call.enqueued[1].sender = after.id

\* the tasks of node n that are at an outbound broadcast
Broadcasting(n) ==
    {t \in Proposers : proposer[n][t].pc = "broadcast"}
        \cup (IF engine[n].pc \in {"announce_send", "move_send"} THEN {"engine"} ELSE {})
        \cup (IF periodic[n].heartbeat.pc = "send" THEN {"heartbeat"} ELSE {})
        \cup (IF periodic[n].discovery.pc = "send" THEN {"discovery"} ELSE {})

\* C6: no task at an outbound broadcast (of step, move_ants, propose_value /
\* send_pheromone, the heartbeat task, the discovery task) holds the
\* NodeState lock, and while tasks wait on a full outbound queue the inbound
\* handler can take the write lock.
C6_NoLockAcrossBroadcast ==
    \A n \in Nodes :
        /\ \A t \in Broadcasting(n) : ~holds(lock[n], t)
        /\ Broadcasting(n) # {} /\ Len(outq[n]) = QueueCapacity => can_write(lock[n])

\* C6, reached: the queue is full and open, the engine and the proposer wait
\* at their broadcasts, a datagram is there for the inbound handler, and the
\* lock is free
C6_Witness ==
    /\ Len(outq[1]) = QueueCapacity
    /\ ~closed[1]
    /\ {"engine", "p1"} \subseteq Broadcasting(1)
    /\ net # {}
    /\ budget.deliveries > 0
    /\ can_write(lock[1])

\* C7: for every ant, after new / with_pheromone and after any sequence of
\* move_to calls, current_node is a member of visited_nodes.
C7_CurrentNodeVisited == ant.current_node \in ant.visited_nodes

\* C8: for every ant, after any sequence of move_to calls the size of
\* visited_nodes never exceeds ANT_MEMORY_SIZE.
C8_MemoryBounded == Cardinality(ant.visited_nodes) <= ANT_MEMORY_SIZE

\* C3: check_consensus returns Some(v) exactly when the map is non-empty
\* and the largest bucket average is >= 0.8, v being a bucket with that
\* average; it then sets current_value = v and adds one to consensus_reached
\* and otherwise returns None and changes nothing. Intensities {1.0, 0.9,
\* 0.8} in a single bucket give Some, {0.7, 0.7, 0.7} give None.
C3_Average(v) == FAvg(SumStrength(nsPrev.pheromones[v]), Len(nsPrev.pheromones[v]))
C3_Reached ==
    /\ DOMAIN nsPrev.pheromones # {}
    /\ \E v \in DOMAIN nsPrev.pheromones : C3_Average(v) >= CONSENSUS_THRESHOLD
C3_Intensities(v) ==
    [i \in 1..Len(nsPrev.pheromones[v]) |-> nsPrev.pheromones[v][i].intensity]
C3_CheckConsensus ==
    nsOp = <<"check_consensus">> =>
        /\ nsRet # NoValue <=> C3_Reached
        /\ C3_Reached =>
              /\ nsRet \in DOMAIN nsPrev.pheromones
              /\ \A v \in DOMAIN nsPrev.pheromones : C3_Average(nsRet) >= C3_Average(v)
              /\ ns = [nsPrev EXCEPT !.current_value = nsRet,
                                     !.stats.consensus_reached = @ + 1]
        /\ ~C3_Reached => ns = nsPrev
        /\ \A v \in Values :
              /\ DOMAIN nsPrev.pheromones = {v}
              /\ C3_Intensities(v) = <<One, 9000, 8000>>
              => nsRet = v
        /\ \A v \in Values :
              /\ DOMAIN nsPrev.pheromones = {v}
              /\ C3_Intensities(v) = <<7000, 7000, 7000>>
              => nsRet = NoValue

\* two buckets, the weaker one below the threshold and the stronger one
\* exactly at it: the stronger is returned and latched over an earlier value
C3_Witness ==
    /\ nsOp = <<"check_consensus">>
    /\ DOMAIN nsPrev.pheromones = Values
    /\ C3_Average("v1") < CONSENSUS_THRESHOLD
    /\ C3_Average("v2") = CONSENSUS_THRESHOLD
    /\ nsRet = "v2"
    /\ ns.current_value = "v2"
    /\ ns.stats.consensus_reached = nsPrev.stats.consensus_reached + 1

\* C9: after every update_ants call each ant in the list has energy > 0;
\* the ants kept are those whose energy stays above 0 after losing 0.1, in
\* their order, each with exactly 0.1 less energy and otherwise unchanged;
\* an ant is removed by the call at which its energy first becomes <= 0.
C9_Kept == {i \in 1..Len(nsPrev.ants) : nsPrev.ants[i].energy_level > ENERGY_DECAY_RATE}
C9_UpdateAnts ==
    nsOp = <<"update_ants">> =>
        /\ \A i \in 1..Len(ns.ants) : ns.ants[i].energy_level > 0
        /\ Len(ns.ants) = Cardinality(C9_Kept)
        /\ \A i \in 1..Len(ns.ants) :
              \E j \in C9_Kept :
                 /\ Cardinality({k \in C9_Kept : k < j}) = i - 1
                 /\ ns.ants[i] = [nsPrev.ants[j] EXCEPT
                                     !.energy_level = @ - ENERGY_DECAY_RATE]
                 /\ ns.ants[i].energy_level < nsPrev.ants[j].energy_level
        /\ \A j \in 1..Len(nsPrev.ants) :
              nsPrev.ants[j].energy_level <= ENERGY_DECAY_RATE
                 => \A i \in 1..Len(ns.ants) : ns.ants[i].id # nsPrev.ants[j].id
        /\ [ns EXCEPT !.ants = <<>>] = [nsPrev EXCEPT !.ants = <<>>]

\* an ant created at energy 100.0 has lived through all the calls before
\* and is removed by this one
C9_Witness ==
    /\ nsOp = <<"update_ants">>
    /\ nsCalls.update * ENERGY_DECAY_RATE = INITIAL_ANT_ENERGY
    /\ Len(nsPrev.ants) = 1
    /\ nsPrev.ants[1].energy_level = ENERGY_DECAY_RATE
    /\ ns.ants = <<>>

\* C10: for a rate r in [0,1], evaporate(r) sets the intensity to
\* intensity * (1 - r) (to the nearest unit), which is <= the previous
\* intensity, and changes no other field; 1.0 becomes 0.9 after
\* evaporate(0.1) and is below 0.5 after 100 further evaporate(0.01) calls.
C10_EvaporateScalesIntensity ==
    /\ 2 * Abs(ph.intensity * One - phPrev.intensity * (One - lastRate)) <= One
    /\ ph.intensity <= phPrev.intensity
    /\ [ph EXCEPT !.intensity = 0] = [phPrev EXCEPT !.intensity = 0]
    /\ evapCount = [r \in Rates |-> IF r = 1000 THEN 1 ELSE 0]
          => ph.intensity = 9000
    /\ evapCount = [r \in Rates |-> IF r = 1000 THEN 1
                                     ELSE IF r = DEFAULT_EVAPORATION_RATE THEN 100 ELSE 0]
          => ph.intensity < 5000

C10_Witness ==
    /\ evapCount = [r \in Rates |-> IF r = 1000 THEN 1
                                     ELSE IF r = DEFAULT_EVAPORATION_RATE THEN 100 ELSE 0]
    /\ lastRate = DEFAULT_EVAPORATION_RATE
    /\ ph.intensity < phPrev.intensity
    /\ ph.intensity > 0

\* C11: evaporate(rate) with a rate outside [0,1] behaves as with the rate
\* clamped into [0,1]: a negative rate leaves the intensity unchanged, a
\* rate above 1 sets it to 0, and for any rate the intensity never increases
\* and never becomes negative.
C11_EvaporateClamps ==
    /\ lastRate < 0 => ph.intensity = phPrev.intensity
    /\ lastRate > One => ph.intensity = 0
    /\ ph.intensity <= phPrev.intensity
    /\ ph.intensity >= 0

\* C12: after evaporate_pheromones no bucket is empty and no stored
\* pheromone has intensity < 0.01; in no state reachable by emit, receive,
\* evaporate and check_consensus does a value key have an empty list; and
\* evaporate_pheromones on an empty map changes nothing.
C12_NoEmptyBucket ==
    /\ \A v \in DOMAIN ns.pheromones : ns.pheromones[v] # <<>>
    /\ nsOp = <<"evaporate_pheromones">>
          => /\ \A v \in DOMAIN ns.pheromones :
                   \A i \in 1..Len(ns.pheromones[v]) :
                       ns.pheromones[v][i].intensity >= MIN_PHEROMONE_INTENSITY
             /\ nsPrev.pheromones = <<>> => ns = nsPrev

\* C12, reached: evaporate_pheromones has removed a whole bucket, whose
\* pheromones all fell below 0.01, and has kept another
C12_Witness ==
    /\ nsOp = <<"evaporate_pheromones">>
    /\ DOMAIN nsPrev.pheromones = Values
    /\ \E v \in Values :
          /\ v \notin DOMAIN ns.pheromones
          /\ DOMAIN ns.pheromones = Values \ {v}

\* C13: a node's own id is never in its neighbor set, whatever add_neighbor
\* calls and inbound messages it gets, a NeighborDiscovery that lists the
\* receiver's id included
C13_NoSelfNeighbor == ns.id \notin ns.neighbors

\* C13, reached: node 1 has handled a NeighborDiscovery from node 2 that lists
\* node 1, after add_neighbor was called with its own id
C13_Witness ==
    /\ nsOp = <<"handle_message", NeighborDiscoveryMsg(2, <<1, 3>>)>>
    /\ ns.id \in nsCalls.added
    /\ nsCalls.neighbor > 0
    /\ ns.neighbors = {2, 3}

\* the last operation on the NodeState was handle_message of a message of
\* this variant
Handled(type) == nsOp[1] = "handle_message" /\ nsOp[2].type = type

\* the list stored under value, empty when value is no key
BucketOf(s, value) == IF value \in DOMAIN s.pheromones THEN s.pheromones[value] ELSE <<>>

\* C14: a PheromoneBroadcast whose sender is the node itself leaves the
\* NodeState unchanged; from any other sender, the sender is a neighbor
\* afterwards, exactly the carried pheromone is appended to the list of its
\* value, pheromones_received grows by one and nothing else changes, whether
\* or not the signature verifies
C14_PheromoneBroadcast ==
    Handled("PheromoneBroadcast") =>
        LET m == nsOp[2]
            p == m.pheromone
        IN  IF m.sender = nsPrev.id
            THEN ns = nsPrev
            ELSE /\ ns.neighbors = nsPrev.neighbors \cup {m.sender}
                 /\ DOMAIN ns.pheromones = DOMAIN nsPrev.pheromones \cup {p.value}
                 /\ ns.pheromones[p.value] = Append(BucketOf(nsPrev, p.value), p)
                 /\ \A v \in DOMAIN nsPrev.pheromones \ {p.value} :
                       ns.pheromones[v] = nsPrev.pheromones[v]
                 /\ ns.stats.pheromones_received = nsPrev.stats.pheromones_received + 1
                 /\ ns = [nsPrev EXCEPT !.neighbors = ns.neighbors,
                                        !.pheromones = ns.pheromones,
                                        !.stats.pheromones_received = @ + 1]

\* C14, reached: a broadcast from node 2 whose signature does not verify was
\* stored behind a pheromone the node already held for the value
C14_Witness ==
    /\ Handled("PheromoneBroadcast")
    /\ nsOp[2].sender = 2
    /\ nsOp[2].pheromone.signature = InvalidSignature
    /\ 2 \notin nsPrev.neighbors
    /\ Len(ns.pheromones[nsOp[2].pheromone.value]) = 2

\* C15: an AntMovement stores its carried pheromone (appended to the list of
\* its value, pheromones_received one higher) exactly when to_node is the
\* node's own id and a pheromone is carried, and else changes nothing; the
\* ant list is the same afterwards in every case
C15_AntMovement ==
    Handled("AntMovement") =>
        LET m == nsOp[2]
            p == m.carried_pheromone
        IN  /\ ns.ants = nsPrev.ants
            /\ IF m.to_node = nsPrev.id /\ p # NoPheromone
               THEN ns = [nsPrev EXCEPT
                             !.pheromones =
                                 [v \in DOMAIN @ \cup {p.value} |->
                                     IF v = p.value THEN Append(BucketOf(nsPrev, v), p)
                                     ELSE @[v]],
                             !.stats.pheromones_received = @ + 1]
               ELSE ns = nsPrev

\* C15, reached: node 1, with an ant in its list, has stored the pheromone
\* carried by an ant that moved to it
C15_Witness ==
    /\ Handled("AntMovement")
    /\ nsOp[2].to_node = 1
    /\ nsOp[2].carried_pheromone # NoPheromone
    /\ ns.ants # <<>>
    /\ ns.stats.pheromones_received = nsPrev.stats.pheromones_received + 1

\* C16: a ConsensusAnnouncement leaves the NodeState entirely unchanged, and
\* current_value is written only by the node's own step, with the value its
\* check_consensus returned, whose list had an average strength of at least
\* 0.8 when checked
C16_AnnouncementNotAdopted ==
    /\ Handled("ConsensusAnnouncement") => ns = nsPrev
    /\ nsOp # <<"step">> => ns.current_value = nsPrev.current_value
    /\ nsOp = <<"step">> =>
          IF nsRet = NoValue
          THEN ns.current_value = nsPrev.current_value
          ELSE /\ ns.current_value = nsRet
               /\ nsRet \in DOMAIN ns.pheromones
               /\ FGe(FAvg(SumStrength(ns.pheromones[nsRet]), Len(ns.pheromones[nsRet])),
                      CONSENSUS_THRESHOLD)

\* C16, reached: node 1, which holds v1 by its own check, has handled node
\* 2's announcement of v2
C16_Witness ==
    /\ Handled("ConsensusAnnouncement")
    /\ nsOp[2] = ConsensusAnnouncement(2, "v2")
    /\ ns.current_value = "v1"
    /\ ns.stats.consensus_reached > 0

\* C17: after a node handles a message of any variant whose sender id
\* (sender, from_node or node_id) is not its own id, that id is in its
\* neighbor set
C17_SenderBecomesNeighbor ==
    nsOp[1] = "handle_message" /\ sender_of(nsOp[2]) # ns.id
        => sender_of(nsOp[2]) \in ns.neighbors

\* C18: a NeighborDiscovery from another node adds the announcer and every
\* listed id but the receiver's own to the neighbor set, one that carries the
\* receiver's id as node_id changes nothing, a Heartbeat from another node
\* adds that node, and neither changes anything but the neighbor set
C18_DiscoveryAndHeartbeat ==
    /\ Handled("NeighborDiscovery") =>
          LET m == nsOp[2]
              listed == {m.neighbors[i] : i \in 1..Len(m.neighbors)}
          IN  IF m.node_id # nsPrev.id
              THEN ns = [nsPrev EXCEPT
                            !.neighbors = @ \cup (({m.node_id} \cup listed) \ {nsPrev.id})]
              ELSE ns = nsPrev
    /\ Handled("Heartbeat") =>
          IF nsOp[2].node_id # nsPrev.id
          THEN ns = [nsPrev EXCEPT !.neighbors = @ \cup {nsOp[2].node_id}]
          ELSE ns = nsPrev

\* C18, reached: node 1, holding pheromones and an ant and knowing nobody, has
\* learnt of nodes 2 and 3 from node 2's discovery message
C18_Witness ==
    /\ Handled("NeighborDiscovery")
    /\ nsOp[2].node_id = 2
    /\ nsOp[2].neighbors = <<1, 3>>
    /\ nsPrev.neighbors = {}
    /\ ns.neighbors = {2, 3}
    /\ ns.pheromones # <<>>
    /\ ns.ants # <<>>

\* C19: under add_neighbor calls, the step loop, proposals and every inbound
\* handler no id ever leaves the neighbor set, the set is exactly the ids
\* passed to add_neighbor so far without the node's own, and add_neighbor of
\* an id a second time changes nothing
C19_NeighborsOnlyGrow ==
    /\ nsPrev.neighbors \subseteq ns.neighbors
    /\ ns.neighbors = nsCalls.added \ {ns.id}
    /\ \A n \in 1..3 : add_neighbor(add_neighbor(ns, n), n) = add_neighbor(ns, n)
    /\ nsOp[1] = "add_neighbor" /\ nsOp[2] \in nsPrev.neighbors => ns = nsPrev

\* C19, reached: add_neighbor(2) for the second time, at a node that has
\* proposed, stepped and learnt of node 3 from a message
C19_Witness ==
    /\ nsOp = <<"add_neighbor", 2>>
    /\ nsPrev.neighbors = {2, 3}
    /\ ns.neighbors = {2, 3}
    /\ nsCalls.neighbor = 2
    /\ nsCalls.step > 0
    /\ nsCalls.store > 0
    /\ nsCalls.handle > 0

\* the ant has visited every neighbor of the node
TourComplete(s, a) == s.neighbors # {} /\ s.neighbors \subseteq a.visited_nodes

\* C20: an ant that has visited all of its node's neighbors is destroyed: the
\* step that finds it so removes it from the node's ant list, whatever energy
\* it has left
C20_TourEndsAnt ==
    [][StepLocked(1) =>
          \A i \in 1..Len(nodes[1].ants) :
              TourComplete(nodes[1], nodes[1].ants[i]) =>
                  \A j \in 1..Len(nodes'[1].ants) :
                      nodes'[1].ants[j].id # nodes[1].ants[i].id]_vars

\* C21: in every step of a node that has a neighbor, each live ant of the
\* node's list is taken up by move_ants, moved (move_to), and one AntMovement
\* for it is put on the outbound queue
C21_AntAdvancesEachStep ==
    [][/\ StepMoveIntensities(1) /\ engine[1].neighbors # <<>>
             => engine'[1].pc = "move_select"
       /\ StepMoveAnt(1) /\ engine[1].neighbors # <<>>
             => /\ engine'[1].pc = "move_send"
                /\ engine'[1].message.type = "AntMovement"
                /\ engine'[1].message.ant_id = Head(engine[1].ants_to_move)[1]
       /\ StepMoveSend(1) => outq'[1] = Append(outq[1], engine[1].message)]_vars

\* the elements of a sequence
Range(seq) == {seq[i] : i \in 1..Len(seq)}

C23_SignedWithCallerKey ==
    \A n \in Nodes, t \in Proposers :
        LET call == proposer[n][t]
            old == Bucket(call.entry, call.value)
            new == Bucket(nodes[n], call.value)
        IN  call.pc = "returned" /\ call.enqueued # <<>>
            => /\ call.ret = "Ok"
               /\ \A i \in Len(old) + 1..Len(new) :
                     new[i].signature.key = call.enqueued[1].pheromone.signature.key

\* the ant ids of node n in use: those held by propose calls in progress and
\* those of the ants of its list
MintedBy(n, t) == IF proposer[n][t].ant_id = 0 THEN {} ELSE {proposer[n][t].ant_id}
AntIds(n) == {nodes[n].ants[i].id : i \in 1..Len(nodes[n].ants)}

\* C24: under every interleaving of concurrent propose calls on one node the
\* ant ids are pairwise distinct (no two calls hold the same id, no two ants
\* of the list bear the same id, every id is below the counter), and each id a
\* call mints is new and greater than the one it minted before
C24_AntIdsDistinct ==
    /\ [](\A n \in Nodes :
            /\ \A t1, t2 \in Proposers : t1 # t2 => MintedBy(n, t1) \cap MintedBy(n, t2) = {}
            /\ Cardinality(AntIds(n)) = Len(nodes[n].ants)
            /\ \A t \in Proposers : \A id \in MintedBy(n, t) \cup AntIds(n) :
                  id < next_ant_id[n])
    /\ [][\A n \in Nodes, t \in Proposers :
             proposer'[n][t].ant_id \notin {0, proposer[n][t].ant_id}
                 => /\ proposer'[n][t].ant_id >= next_ant_id[n]
                    /\ proposer'[n][t].ant_id > proposer[n][t].ant_id
                    /\ next_ant_id'[n] > proposer'[n][t].ant_id]_vars

\* C24, reached: two propose calls on node 1 are in progress at once and have
\* minted the ids 1 and 2
C24_Witness ==
    /\ proposer[1]["p1"].pc = "explorer_emit"
    /\ proposer[1]["p2"].pc = "explorer_emit"
    /\ {proposer[1]["p1"].ant_id, proposer[1]["p2"].ant_id} = {1, 2}

\* C25: a propose_value whose first emit_pheromone fails on signing returns
\* an error with the NodeState as it was on entry (no pheromone stored,
\* pheromones_emitted the same), nothing enqueued, no ant id minted and no ant
\* created
C25_FailedEmitChangesNothing ==
    \A n \in Nodes, t \in Proposers :
        LET call == proposer[n][t]
        IN  call.pc = "returned" /\ call.pheromone = NoPheromone
            => /\ call.ret = "Err"
               /\ nodes[n] = call.entry
               /\ call.enqueued = <<>>
               /\ call.ant_id = 0
               /\ call.ant = NoPheromone

\* C25, reached: on a node that holds a pheromone from an earlier proposal, a
\* propose_value has returned because its first emit failed
C25_Witness ==
    LET call == proposer[1]["p1"]
    IN  /\ call.pc = "returned"
        /\ call.pheromone = NoPheromone
        /\ call.ret = "Err"
        /\ call.entry.pheromones # <<>>
        /\ call.entry.stats.pheromones_emitted > 0

\* C26: with the outbound queue closed, a propose at its broadcast returns an
\* error to its caller, and the step loop goes on: a step whose
\* ConsensusAnnouncement cannot be broadcast ends with the engine waiting for
\* its next tick, a failed AntMovement broadcast lets move_ants continue, and
\* whenever the engine waits for a tick it has left, with the lock free, the
\* next step can run
C26_BroadcastFailureNotFatal ==
    /\ [][/\ ProposeBroadcast(1, "p1") /\ closed[1]
                => /\ proposer'[1]["p1"].pc = "returned"
                   /\ proposer'[1]["p1"].ret = "Err"
          /\ StepAnnounceSend(1) /\ closed[1] => engine'[1] = EngineIdle
          /\ StepMoveSend(1) /\ closed[1] => engine'[1].pc = "move_loop"]_vars
    /\ [](closed[1] /\ engine[1].pc = "tick" /\ budget.ticks[1] > 0 /\ can_write(lock[1])
             => ENABLED StepLocked(1))

\* C26, reached: the queue is closed and nothing was ever announced, yet the
\* engine has run its second step, which reached consensus like the first:
\* the first step's announcement failed and the loop went on
C26_Witness ==
    /\ closed[1]
    /\ engine[1].pc = "announce"
    /\ nodes[1].stats.consensus_reached = 2
    /\ \A i \in 1..Len(outq[1]) : outq[1][i].type # "ConsensusAnnouncement"
    /\ \A m \in net : m.type # "ConsensusAnnouncement"

C28_DiscoveryBroadcast ==
    \A n \in Nodes :
        []<>(\E i \in 1..Len(outq[n]) : outq[n][i].type = "NeighborDiscovery")

\* C29: the proposal block of the simple simulation completes: once started
\* it can always take its next step until it has returned, and when it has
\* returned the PheromoneBroadcast is enqueued
C29_SimProposalCompletes ==
    LET p == proposer[1]["p1"]
    IN  /\ p.pc \notin {"idle", "returned"} => ENABLED SimRuns(1, "p1")
        /\ p.pc = "returned" => p.enqueued # <<>>

\* a pheromone the node emitted itself and no step has evaporated yet
FreshOwn(s, p) == p.source = s.id /\ p.intensity = INITIAL_PHEROMONE_INTENSITY

\* the step of node n latches value and goes on to announce it
LatchesAndAnnounces(n, value) ==
    /\ nodes'[n].current_value = value
    /\ engine'[n].consensus = value
    /\ engine'[n].pc = "announce"

\* the announcement of the value the step latched is handed to the outbound
\* queue whenever the queue is open
AnnouncementEnqueued ==
    \A n \in Nodes :
        StepAnnounceSend(n) /\ ~closed[n]
            => outq'[n] = Append(outq[n], ConsensusAnnouncement(nodes[n].id, engine[n].consensus))

\* C30 as stated: a node that has proposed value since its last step and holds
\* no bucket of another value latches value at that step and announces it
C30_ProposerLatchesAtNextStep ==
    [][\A n \in Nodes, value \in Values :
          /\ StepLocked(n)
          /\ DOMAIN nodes[n].pheromones = {value}
          /\ \E i \in 1..Len(nodes[n].pheromones[value]) :
                 FreshOwn(nodes[n], nodes[n].pheromones[value][i])
          => LatchesAndAnnounces(n, value)]_vars

\* C30: a node whose store holds nothing but what it has proposed for value
\* since its last step latches value at its next step and announces it; no
\* pheromone of a peer is needed
C30_FreshProposalLatches ==
    /\ [][\A n \in Nodes, value \in Values :
             /\ StepLocked(n)
             /\ DOMAIN nodes[n].pheromones = {value}
             /\ \A i \in 1..Len(nodes[n].pheromones[value]) :
                    FreshOwn(nodes[n], nodes[n].pheromones[value][i])
             => LatchesAndAnnounces(n, value)]_vars
    /\ [][AnnouncementEnqueued]_vars

\* node 1 has latched its own proposal and announced it while its
\* PheromoneBroadcast has not even left its outbound queue and node 2 has
\* received and stored nothing
C30_Witness ==
    /\ nodes[1].current_value = "v1"
    /\ nodes[1].stats.pheromones_received = 0
    /\ \E i \in 1..Len(outq[1]) : outq[1][i].type = "PheromoneBroadcast"
    /\ \E i \in 1..Len(outq[1]) : outq[1][i] = ConsensusAnnouncement(1, "v1")
    /\ net = {}
    /\ nodes[2].pheromones = NodeState_new(2).pheromones
    /\ nodes[2].stats.pheromones_received = 0

\* the averages of the buckets of a NodeState
BucketAverages(s) ==
    {FAvg(SumStrength(s.pheromones[v]), Len(s.pheromones[v])) : v \in DOMAIN s.pheromones}

\* some bucket of the NodeState, once evaporated, averages at least the
\* consensus threshold
AtLevel(s) ==
    \E avg \in BucketAverages(update_ants(evaporate_pheromones(s))) :
        FGe(avg, CONSENSUS_THRESHOLD)

\* a step counts and goes on to announce exactly when a bucket is at the
\* level, whatever current_value is
FiresOnLevel(n) ==
    StepLocked(n) =>
        IF AtLevel(nodes[n])
        THEN /\ nodes'[n].stats.consensus_reached = nodes[n].stats.consensus_reached + 1
             /\ engine'[n].pc = "announce"
             /\ engine'[n].consensus \in DOMAIN nodes'[n].pheromones
             /\ nodes'[n].current_value = engine'[n].consensus
        ELSE /\ nodes'[n].stats.consensus_reached = nodes[n].stats.consensus_reached
             /\ engine'[n].pc = "move_ants"
             /\ engine'[n].consensus = NoValue
             /\ nodes'[n].current_value = nodes[n].current_value

\* the number of ConsensusAnnouncements a queue holds
Announcements(q) == Cardinality({i \in 1..Len(q) : q[i].type = "ConsensusAnnouncement"})

\* only the announce of a step that fired adds a ConsensusAnnouncement to the
\* outbound queue, and it adds one
AnnouncedByFiringStepOnly(n) ==
    Announcements(outq'[n]) > Announcements(outq[n])
        => /\ StepAnnounceSend(n)
           /\ engine[n].consensus # NoValue
           /\ Announcements(outq'[n]) = Announcements(outq[n]) + 1

\* C31 as stated: every step in which the best bucket average is at least 0.8
\* counts a consensus and enqueues one ConsensusAnnouncement, also when the
\* value is latched already; a step below 0.8 enqueues none
C31_FiresOnLevelAlways ==
    [][\A n \in Nodes :
          /\ FiresOnLevel(n)
          /\ AnnouncedByFiringStepOnly(n)
          /\ StepAnnounceSend(n)
                => outq'[n] = Append(outq[n], ConsensusAnnouncement(nodes[n].id,
                                                                    engine[n].consensus))]_vars

\* C31: every step in which the best bucket average is at least 0.8 counts a
\* consensus and, unless the outbound queue is closed, enqueues one
\* ConsensusAnnouncement, also when the value is latched already; a step
\* below 0.8 counts nothing and enqueues none
C31_FiresOnLevel ==
    [][\A n \in Nodes :
          /\ FiresOnLevel(n)
          /\ AnnouncedByFiringStepOnly(n)
          /\ StepAnnounceSend(n) /\ ~closed[n]
                => outq'[n] = Append(outq[n], ConsensusAnnouncement(nodes[n].id,
                                                                    engine[n].consensus))
          /\ StepAnnounceSend(n) /\ closed[n] => outq'[n] = outq[n]]_vars

\* node 1 has announced v1 twice: the second step found v1 latched already
\* and fired again
C31_Witness ==
    /\ nodes[1].current_value = "v1"
    /\ nodes[1].stats.consensus_reached = 2
    /\ Announcements(outq[1]) = 2

\* the ants of node n's list that have the id
AntsWithId(s, id) == {i \in 1..Len(s.ants) : s.ants[i].id = id}

\* move_ants makes an AntMovement only for an ant that is at the node, and
\* sends it to a neighbor, never to the node itself; the ant is elsewhere
\* afterwards
MovesOnlyFromHome(n) ==
    StepMoveAnt(n) /\ engine'[n].pc = "move_send" =>
        LET m == engine'[n].message
        IN  /\ m.type = "AntMovement"
            /\ \A i \in AntsWithId(nodes[n], m.ant_id) :
                   nodes[n].ants[i].current_node = nodes[n].id
            /\ m.to_node \in nodes[n].neighbors
            /\ m.to_node # nodes[n].id
            /\ \A i \in AntsWithId(nodes'[n], m.ant_id) :
                   nodes'[n].ants[i].current_node = m.to_node

\* an ant of the list that is elsewhere is never moved again: it keeps its
\* current_node as long as it is in the list, and no AntMovement is made
\* for it
MovedAntIsSkipped(n) ==
    \A i \in 1..Len(nodes[n].ants) :
        nodes[n].ants[i].current_node # nodes[n].id =>
            /\ \A j \in AntsWithId(nodes'[n], nodes[n].ants[i].id) :
                   nodes'[n].ants[j].current_node = nodes[n].ants[i].current_node
            /\ engine'[n].message # engine[n].message /\ engine'[n].message.type = "AntMovement"
                   => engine'[n].message.ant_id # nodes[n].ants[i].id

\* an ant leaves the list only in the step that finds its energy run out
StaysUntilEnergyRunsOut(n) ==
    \A i \in 1..Len(nodes[n].ants) :
        AntsWithId(nodes'[n], nodes[n].ants[i].id) = {} =>
            /\ StepLocked(n)
            /\ ~is_alive(update_energy(nodes[n].ants[i]))

\* the number of AntMovements a queue holds
Movements(q) == Cardinality({k \in 1..Len(q) : q[k].type = "AntMovement"})

\* an AntMovement enters the outbound queue only as the one message move_ants
\* has just made
MovementEnqueuedOnce(n) ==
    Movements(outq'[n]) > Movements(outq[n]) =>
        /\ engine[n].pc = "move_send"
        /\ outq'[n] = Append(outq[n], engine[n].message)

\* C32: an ant causes at most one AntMovement: move_ants moves only an ant
\* that is at the node, to a neighbor and never to the node itself, skips it
\* in every later step, and the ant stays in the list until its energy runs
\* out
C32_OneMovementPerAnt ==
    [][\A n \in Nodes :
          /\ MovesOnlyFromHome(n)
          /\ MovedAntIsSkipped(n)
          /\ StaysUntilEnergyRunsOut(n)
          /\ MovementEnqueuedOnce(n)]_vars

\* the second step of node 1 is over and its ant, moved in the first step,
\* is still in the list and still elsewhere
C32_Witness ==
    /\ Len(nodes[1].ants) = 1
    /\ nodes[1].ants[1].current_node # nodes[1].id
    /\ nodes[1].ants[1].energy_level = INITIAL_ANT_ENERGY - 2 * ENERGY_DECAY_RATE
    /\ engine[1].pc = "tick"
    /\ budget.ticks[1] = 0

\* the pheromone a message carries, or NoPheromone
PheromoneOf(m) ==
    IF m.type = "PheromoneBroadcast" THEN m.pheromone
    ELSE IF m.type = "AntMovement" THEN m.carried_pheromone
    ELSE NoPheromone

FullStrength(p) == p = NoPheromone \/ p.intensity = INITIAL_PHEROMONE_INTENSITY

\* the messages node n has made and not yet sent, and those it has queued
Outgoing(n) ==
    {engine[n].message} \cup {proposer[n][t].message : t \in Proposers}
        \cup {outq[n][k] : k \in 1..Len(outq[n])}

\* the pheromones a delivery to node n appends to its buckets
Inserted(n) ==
    UNION {LET old == IF v \in DOMAIN nodes[n].pheromones THEN nodes[n].pheromones[v]
                      ELSE <<>>
               new == nodes'[n].pheromones[v]
           IN  {new[k] : k \in (Len(old) + 1)..Len(new)} : v \in DOMAIN nodes'[n].pheromones}

\* C33: every pheromone in an outgoing PheromoneBroadcast or AntMovement has
\* intensity 1.0; the copy an ant carries is never evaporated; each delivery
\* to a peer inserts a full-strength pheromone
C33_FullStrengthOnTheWire ==
    /\ [](\A n \in Nodes :
            /\ \A m \in Outgoing(n) \cup net : FullStrength(PheromoneOf(m))
            /\ \A i \in 1..Len(nodes[n].ants) : FullStrength(nodes[n].ants[i].carried_pheromone))
    /\ [][\A n \in Nodes : Deliver(n) => \A p \in Inserted(n) : FullStrength(p)]_vars

\* node 1's stored pheromones for v1 have all decayed, the AntMovement on the
\* network still carries a full-strength copy, and node 2 has stored it
C33_Witness ==
    /\ "v1" \in DOMAIN nodes[1].pheromones
    /\ \A k \in 1..Len(nodes[1].pheromones["v1"]) :
           nodes[1].pheromones["v1"][k].intensity < INITIAL_PHEROMONE_INTENSITY
    /\ \E m \in net : m.type = "AntMovement" /\ m.carried_pheromone # NoPheromone
    /\ nodes[2].stats.pheromones_received = 1
    /\ "v1" \in DOMAIN nodes[2].pheromones
    /\ nodes[2].pheromones["v1"][1].intensity = INITIAL_PHEROMONE_INTENSITY

\* the node holds no pheromone and no ant
Drained(s) == DOMAIN s.pheromones = {} /\ s.ants = <<>>

\* C34: a node that emits and receives nothing more, and whose engine keeps
\* stepping, eventually holds no pheromone and no ant and stays so; its
\* current_value changes only to a value a step latches and never back to
\* None
C34_Quiescence ==
    /\ <>[]Drained(nodes[1])
    /\ [][\A n \in Nodes :
             nodes'[n].current_value # nodes[n].current_value =>
                 /\ StepLocked(n)
                 /\ nodes'[n].current_value # NoValue
                 /\ nodes'[n].current_value = engine'[n].consensus]_vars

\* node 1 is drained and still has the value it latched
C34_Witness ==
    /\ Drained(nodes[1])
    /\ nodes[1].current_value # NoValue
    /\ nodes[1].stats.consensus_reached > 0

\* the NodeState a propose_value leaves when only its first emit took effect
AfterFirstEmit(call) ==
    [call.entry EXCEPT !.pheromones = push_pheromone(@, call.value, call.pheromone),
                       !.stats.pheromones_emitted = @ + 1]

\* C35: a propose_value that fails after its local emit rolls nothing back:
\* when the PheromoneBroadcast could not be enqueued, the emitted pheromone is
\* in its bucket, pheromones_emitted is incremented and no ant id was minted
\* and no ant created; when an explorer emit failed, the pheromone, the
\* enqueued PheromoneBroadcast and the ants created before it remain
C35_NoRollback ==
    \A n \in Nodes, t \in Proposers :
        LET call == proposer[n][t]
        IN  call.pc = "returned" /\ call.ret = "Err" /\ call.pheromone # NoPheromone
            => /\ nodes[n] = AfterFirstEmit(call)
               /\ call.enqueued = <<>>
                     => /\ call.ant_id = 0
                        /\ nodes[n].ants = call.entry.ants
               /\ call.enqueued # <<>>
                     => /\ call.enqueued = <<PheromoneBroadcast(call.pheromone, nodes[n].id)>>
                        /\ call.ant_id # 0
                        /\ call.ant = NoPheromone

\* the node holds the pheromone of a first call that failed at its explorer
\* emit, and a second call has just failed at the broadcast, on the closed
\* queue: both pheromones are in the bucket and counted
C35_Witness ==
    LET call == proposer[1]["p1"]
    IN  /\ call.pc = "returned"
        /\ call.ret = "Err"
        /\ call.pheromone # NoPheromone
        /\ call.enqueued = <<>>
        /\ closed[1]
        /\ next_ant_id[1] = 2
        /\ nodes[1].stats.pheromones_emitted = 2
        /\ call.value \in DOMAIN nodes[1].pheromones
        /\ Len(nodes[1].pheromones[call.value]) = 2
        /\ nodes[1].ants = <<>>

====
